---- MODULE Spec2Model ----
(***************************************************************************)
(* A model of the two decision cores of the IT-fleet triage tool:          *)
(*   - backend/processing.py: detect_problems_and_score (column            *)
(*     resolution, synthesis of absent columns, numeric coercion, the      *)
(*     eleven problem flags, Critical_Score, Severity_Level, Problems and  *)
(*     Total_Problems);                                                    *)
(*   - backend/chatboot/main.py: the session map and the /chat router.     *)
(*                                                                         *)
(* Conventions.  Text is a TLA+ string; Len, SubSeq and \o act on it as on *)
(* a sequence of characters.  A real number of the scoring (a usage        *)
(* percentage, a score, a weight) is counted in halves: the model's        *)
(* integer n stands for n/2, so 85 is written 170 and the weight 1.5 is    *)
(* written 3.  All weights and thresholds of the scoring are whole         *)
(* multiples of 0.5, and so is the median of whole numbers.  A similarity  *)
(* score of the retrieval is counted in tenths: 0.5 is written 5.  The     *)
(* clock is counted in units of twelve hours.                              *)
(***************************************************************************)
EXTENDS Integers, Sequences, FiniteSets, TLC

VARIABLES
    df,          \* the DataFrame handed to detect_problems_and_score
    seed,        \* state of numpy's global random generator
    stage,       \* "input" | "scored" | "raised"
    scored,      \* the rows of df_scored once the function has returned
    attrs,       \* df_scored.attrs: the resolved column names
    error,       \* the exception the function raised, or "none"
    columns,     \* df_scored.columns, as the fleet summary functions see them
    cleaning_options,  \* the options dict handed to get_top_critical_machines
    kpis,        \* what calculate_kpis returned
    top_critical,      \* what get_top_critical_machines returned
    lookup       \* one call of RetrievalSystem.search: arguments and result

\* The fleet summary and the retrieval call under study
svars == <<columns, cleaning_options, kpis, top_critical, lookup>>

\* Everything the chatbot endpoints leave alone
pvars == <<df, seed, stage, scored, attrs, error, svars>>

VARIABLES
    started,                \* the startup event of the chatbot app has run
    now,                    \* datetime.now(), in units of 12 hours
    conversation_sessions,  \* the session map: session id -> session object
    heap,                   \* the session dicts ever created, by address
    uuids,                  \* how many uuid4() values have been generated
    chats,                  \* how many /chat requests have been received
    th,                     \* per worker thread: the locals of its chat request
    reply,                  \* the response of start/get/delete, when the last
                            \* step served one of them
    ever_engaged            \* history: the ids under which a session has had
                            \* both problem and solution set

cvars == <<started, now, conversation_sessions, heap, uuids, chats, th, reply,
          ever_engaged>>

vars == <<df, seed, stage, scored, attrs, error,
          columns, cleaning_options, kpis, top_critical, lookup,
          started, now, conversation_sessions, heap, uuids, chats, th, reply,
          ever_engaged>>

(***************************************************************************)
(* Text                                                                    *)
(***************************************************************************)
UpperChars == "ABCDEFGHIJKLMNOPQRSTUVWXYZ"
LowerChars == "abcdefghijklmnopqrstuvwxyz"

\* str.lower() of one character
LowerTable ==
    [c \in {SubSeq(UpperChars, i, i) : i \in 1..Len(UpperChars)} |->
        LET i == CHOOSE j \in 1..Len(UpperChars) : SubSeq(UpperChars, j, j) = c
        IN  SubSeq(LowerChars, i, i)]

LowerChar(c) == IF c \in DOMAIN LowerTable THEN LowerTable[c] ELSE c

RECURSIVE LowerOf(_)
\* str.lower()
LowerOf(s) ==
    IF Len(s) = 0 THEN ""
    ELSE IF Len(s) = 1 THEN LowerChar(s)
    ELSE LET h == Len(s) \div 2
         IN  LowerOf(SubSeq(s, 1, h)) \o LowerOf(SubSeq(s, h + 1, Len(s)))

\* The column names a dataset of the model can bear.  LowerMemo tabulates
\* LowerOf over them once; Lower(s) is LowerOf(s) for every s.
ColumnNames ==
    {"Hostname", "Computer ID", "CPU Usage (%)", "RAM%", "Disk Storage",
     "Network Status", "MissingPatchsKB", "Severity", "CVE identifier(s)",
     "RAM Usage (%)", "Disk Usage (%)"}

LowerMemo == [s \in ColumnNames |-> LowerOf(s)]

Lower(s) == IF s \in ColumnNames THEN LowerMemo[s] ELSE LowerOf(s)

\* Python's `sub in s`
Contains(s, sub) ==
    \E i \in 1..(Len(s) - Len(sub) + 1) : SubSeq(s, i, i + Len(sub) - 1) = sub

\* any(keyword in s for keyword in keywords), keywords a sequence
AnyKeywordIn(keywords, s) ==
    \E k \in 1..Len(keywords) : Contains(s, keywords[k])

(***************************************************************************)
(* DataFrame cells.  A cell is a string, a number (in halves), NaN (an     *)
(* empty CSV cell) or an infinity.  A column read by pandas.read_csv       *)
(* (main1.py:33) has dtype object when some cell is a string, and is       *)
(* numeric otherwise.                                                      *)
(***************************************************************************)
Str(x) == [t |-> "str", s |-> x, n |-> 0]
Num(v) == [t |-> "num", s |-> "", n |-> v]
NaN == [t |-> "nan", s |-> "", n |-> 0]
PosInf == [t |-> "inf", s |-> "", n |-> 1]
NegInf == [t |-> "inf", s |-> "", n |-> -1]

\* len(df)
NumRows(f) == Len(f.data[f.columns[1]])

\* `name in df.columns`
HasColumn(f, name) == \E i \in 1..Len(f.columns) : f.columns[i] = name

\* df[name] = cells
SetColumn(f, name, cells) ==
    [columns |-> IF HasColumn(f, name) THEN f.columns ELSE Append(f.columns, name),
     data    |-> [c \in (DOMAIN f.data) \cup {name} |->
                    IF c = name THEN cells ELSE f.data[c]]]

(***************************************************************************)
(* Column resolver: processing.py 96-112 and 278-285                       *)
(***************************************************************************)
cpu_keywords == <<"cpu", "processor", "processor usage">>
ram_keywords == <<"ram", "memory", "memory usage">>
disk_keywords == <<"disk", "storage", "disk usage", "storage usage">>
network_keywords == <<"network", "network status">>
patch_keywords == <<"missingpatchs", "missingpatchskb", "patch">>
severity_keywords == <<"severity", "risk level">>
cve_keywords == <<"cve", "cve identifier">>

find_usage_columns(f, keywords) ==
    LET Matches(col) == AnyKeywordIn(keywords, Lower(col))
    IN  SelectSeq(f.columns, Matches)

\* Mutant of FirstOr: the last match is taken
FirstOr_Last(cols, default) == IF Len(cols) > 0 THEN cols[Len(cols)] ELSE default

\* `cols[0] if cols else default`
FirstOr(cols, default) == IF Len(cols) > 0 THEN cols[1] ELSE default

ResolveColumns(f) ==
    [cpu_col      |-> FirstOr(find_usage_columns(f, cpu_keywords), "CPU Usage (%)"),
     ram_col      |-> FirstOr(find_usage_columns(f, ram_keywords), "RAM Usage (%)"),
     disk_col     |-> FirstOr(find_usage_columns(f, disk_keywords), "Disk Usage (%)"),
     network_col  |-> FirstOr(find_usage_columns(f, network_keywords), "Network Status"),
     patch_col    |-> FirstOr(find_usage_columns(f, patch_keywords), "MissingPatchsKB"),
     severity_col |-> FirstOr(find_usage_columns(f, severity_keywords), "Severity"),
     cve_col      |-> FirstOr(find_usage_columns(f, cve_keywords), "CVE identifier(s)")]

(***************************************************************************)
(* Synthesis of absent columns: processing.py 114-126.  numpy's global     *)
(* generator is a stream of words fixed by its state; the k-th word drawn  *)
(* from state sd is RandomWord(sd + k).  randint(lo, hi) is lo + word      *)
(* modulo (hi - lo), a value of lo..hi-1; choice(list) is the list entry   *)
(* at word modulo len(list).                                               *)
(***************************************************************************)
RandomWord(k) == k * 37

\* np.random.randint(lo, hi): low inclusive, high exclusive
Randint(lo, hi, k) == lo + (RandomWord(k) % (hi - lo))

\* np.random.choice(list)
Choice(list, k) == list[(RandomWord(k) % Len(list)) + 1]

network_choices == <<"Online", "Offline", "Unstable">>
patch_choices == <<"Release Notes", "5002768", "5002754">>
severity_choices == <<"Critical", "Important", "Moderate", "Low">>

\* One `if col not in df_scored.columns: df_scored[col] = ...` statement:
\* st is [f, k], the frame so far and the generator state.
SynthNumeric(st, col, lo, hi) ==
    IF HasColumn(st.f, col) THEN st
    ELSE [f |-> SetColumn(st.f, col,
                    [i \in 1..NumRows(st.f) |-> Num(2 * Randint(lo, hi, st.k + i - 1))]),
          k |-> st.k + NumRows(st.f)]

SynthChoice(st, col, list) ==
    IF HasColumn(st.f, col) THEN st
    ELSE [f |-> SetColumn(st.f, col,
                    [i \in 1..NumRows(st.f) |-> Str(Choice(list, st.k + i - 1))]),
          k |-> st.k + NumRows(st.f)]

\* Lines 115-126, in order.  The CVE column is not among them.
SynthesizeMissing(f, names, sd) ==
    LET s0 == [f |-> f, k |-> sd]
        s1 == SynthNumeric(s0, names.cpu_col, 20, 95)
        s2 == SynthNumeric(s1, names.ram_col, 30, 98)
        s3 == SynthNumeric(s2, names.disk_col, 40, 99)
        s4 == SynthChoice(s3, names.network_col, network_choices)
        s5 == SynthChoice(s4, names.patch_col, patch_choices)
        s6 == SynthChoice(s5, names.severity_col, severity_choices)
    IN  s6

(***************************************************************************)
(* Computer ID: processing.py 128-135                                      *)
(***************************************************************************)
Digits == "0123456789"
Digit(d) == SubSeq(Digits, d + 1, d + 1)

\* f"PC_{i:03d}" for 0 <= i <= 999
PcLabel(i) ==
    "PC_" \o Digit((i \div 100) % 10) \o Digit((i \div 10) % 10) \o Digit(i % 10)

EnsureComputerId(f) ==
    IF HasColumn(f, "Computer ID") THEN f
    ELSE IF HasColumn(f, "ID") THEN SetColumn(f, "Computer ID", f.data["ID"])
    ELSE IF HasColumn(f, "Computer") THEN SetColumn(f, "Computer ID", f.data["Computer"])
    ELSE SetColumn(f, "Computer ID", [i \in 1..NumRows(f) |-> Str(PcLabel(i))])

(***************************************************************************)
(* Numeric coercion: processing.py 137-144                                 *)
(***************************************************************************)
IsDigits(s) ==
    /\ Len(s) > 0
    /\ \A i \in 1..Len(s) : Contains(Digits, SubSeq(s, i, i))

DigitValue(c) == CHOOSE d \in 0..9 : Digit(d) = c

RECURSIVE ParseInt(_)
ParseInt(s) ==
    IF Len(s) = 0 THEN 0
    ELSE 10 * ParseInt(SubSeq(s, 1, Len(s) - 1)) + DigitValue(SubSeq(s, Len(s), Len(s)))

\* pd.to_numeric(errors="coerce") of one cell.  Of the strings, those made of
\* digits and "inf"/"-inf" parse; every other string the model draws is not
\* a number and becomes NaN.
to_numeric(cell) ==
    IF cell.t = "str"
    THEN IF IsDigits(cell.s) THEN Num(2 * ParseInt(cell.s))
         ELSE IF Lower(cell.s) = "inf" THEN PosInf
         ELSE IF Lower(cell.s) = "-inf" THEN NegInf
         ELSE NaN
    ELSE cell

\* .replace([np.inf, -np.inf], np.nan)
ReplaceInf(cell) == IF cell.t = "inf" THEN NaN ELSE cell

RECURSIVE SortedInsert(_, _)
SortedInsert(sorted, v) ==
    IF Len(sorted) = 0 THEN <<v>>
    ELSE IF v <= Head(sorted) THEN <<v>> \o sorted
    ELSE <<Head(sorted)>> \o SortedInsert(Tail(sorted), v)

RECURSIVE SortValues(_)
SortValues(vals) ==
    IF Len(vals) = 0 THEN <<>>
    ELSE SortedInsert(SortValues(Tail(vals)), Head(vals))

\* Series.median(): NaN is skipped; NaN when nothing is left.  The mean of the
\* two middle values of whole numbers is a whole number of halves.
Median(cells) ==
    LET IsValid(c) == c.t = "num"
        valid == SelectSeq(cells, IsValid)
        vals == SortValues([i \in 1..Len(valid) |-> valid[i].n])
        m == Len(vals)
    IN  IF m = 0 THEN NaN
        ELSE IF m % 2 = 1 THEN Num(vals[(m + 1) \div 2])
        ELSE Num((vals[m \div 2] + vals[(m \div 2) + 1]) \div 2)

\* Mutant of CoerceColumn: an invalid cell becomes 0 whatever the column holds
CoerceColumn_ZeroFill(cells) ==
    LET col_vals == [i \in 1..Len(cells) |-> ReplaceInf(to_numeric(cells[i]))]
    IN  [i \in 1..Len(cells) |-> IF col_vals[i].t = "nan" THEN Num(0) ELSE col_vals[i]]

CoerceColumn(cells) ==
    LET col_vals == [i \in 1..Len(cells) |-> ReplaceInf(to_numeric(cells[i]))]
        med == Median(col_vals)
        fill_value == IF med.t = "nan" THEN Num(0) ELSE med
    IN  [i \in 1..Len(cells) |-> IF col_vals[i].t = "nan" THEN fill_value ELSE col_vals[i]]

CoerceNumeric(f, names) ==
    LET f1 == SetColumn(f, names.cpu_col, CoerceColumn(f.data[names.cpu_col]))
        f2 == SetColumn(f1, names.ram_col, CoerceColumn(f1.data[names.ram_col]))
        f3 == SetColumn(f2, names.disk_col, CoerceColumn(f2.data[names.disk_col]))
    IN  f3

(***************************************************************************)
(* Problem detection: processing.py 150-177.  The thresholds are in halves.*)
(***************************************************************************)
CpuThreshold == 170
RamThreshold == 160
DiskThreshold == 180

\* The .str accessor exists on a column of strings (dtype object) and raises
\* AttributeError on a numeric column.
StrAccessorOk(cells) == \E i \in 1..Len(cells) : cells[i].t = "str"

\* .str.lower() of one cell: NaN for a cell that is not a string
str_lower(cell) == IF cell.t = "str" THEN Str(Lower(cell.s)) ELSE NaN

\* .isin(values) of one cell: NaN is in no list
isin(cell, values) == cell.t = "str" /\ cell.s \in values

\* `!= literal` of one cell: NaN != x is True
ne(cell, literal) == cell.t # "str" \/ cell.s # literal

\* .notna()
notna(cell) == cell.t # "nan"

\* .str.contains(pat) of one cell: "T", "F", or "NA" for a cell that is not a
\* string (the result column then has dtype object and holds NaN)
str_contains(cell, pat) ==
    IF cell.t # "str" THEN "NA"
    ELSE IF Contains(cell.s, pat) THEN "T" ELSE "F"

\* bool & object: pandas fills the NaN of the right operand with False
AndFill(left, right) == left /\ right = "T"

High_CPU(f, names, i) == f.data[names.cpu_col][i].n > CpuThreshold
High_RAM(f, names, i) == f.data[names.ram_col][i].n > RamThreshold
High_Disk(f, names, i) == f.data[names.disk_col][i].n > DiskThreshold

Network_Offline(f, names, i) ==
    isin(str_lower(f.data[names.network_col][i]), {"offline", "disconnected"})
\* Mutant of Network_Unstable: an offline machine counts as unstable too
Network_Unstable_Overlapping(f, names, i) ==
    isin(str_lower(f.data[names.network_col][i]), {"unstable", "poor", "offline"})

Network_Unstable(f, names, i) ==
    isin(str_lower(f.data[names.network_col][i]), {"unstable", "poor"})

Missing_Patch(f, names, i) ==
    LET c == f.data[names.patch_col][i]
    IN  /\ notna(c)
        /\ ne(str_lower(c), "release notes")
        /\ ne(str_lower(c), "unknown")

Critical_Vulnerability(f, names, i) ==
    str_contains(str_lower(f.data[names.severity_col][i]), "critical")
Important_Vulnerability(f, names, i) ==
    str_contains(str_lower(f.data[names.severity_col][i]), "important")
Moderate_Vulnerability(f, names, i) ==
    str_contains(str_lower(f.data[names.severity_col][i]), "moderate")
Low_Vulnerability(f, names, i) ==
    str_contains(str_lower(f.data[names.severity_col][i]), "low")

Has_CVE(f, names, i) ==
    LET c == f.data[names.cve_col][i]
    IN  AndFill(notna(c) /\ ne(str_lower(c), "unknown"), str_contains(c, "CVE-"))

(***************************************************************************)
(* Critical scoring: processing.py 183-205.  The weights are in halves.    *)
(***************************************************************************)
W_High_CPU == 4
W_High_RAM == 3
W_High_Disk == 4
W_Network_Offline == 6
W_Network_Unstable == 4
W_Missing_Patch == 4
W_Critical_Vulnerability == 6
W_Important_Vulnerability == 4
W_Moderate_Vulnerability == 2
W_Low_Vulnerability == 1
W_Has_CVE == 2

\* df.loc[mask, "Critical_Score"] += w, for one row
AddIf(score, mask, w) == IF mask THEN score + w ELSE score

\* Mutant of CriticalScore: the Low-vulnerability increment is dropped
CriticalScore_NoLow(fl) ==
    AddIf(0, fl.High_CPU, W_High_CPU) + AddIf(0, fl.High_RAM, W_High_RAM)
    + AddIf(0, fl.High_Disk, W_High_Disk)
    + AddIf(0, fl.Network_Offline, W_Network_Offline)
    + AddIf(0, fl.Network_Unstable, W_Network_Unstable)
    + AddIf(0, fl.Missing_Patch, W_Missing_Patch)
    + AddIf(0, fl.Critical_Vulnerability, W_Critical_Vulnerability)
    + AddIf(0, fl.Important_Vulnerability, W_Important_Vulnerability)
    + AddIf(0, fl.Moderate_Vulnerability, W_Moderate_Vulnerability)
    + AddIf(0, fl.Has_CVE, W_Has_CVE)

\* Critical_Score of a row whose eleven flags are the record fl
CriticalScore(fl) ==
    LET c0 == 0
        c1 == AddIf(c0, fl.High_CPU, W_High_CPU)
        c2 == AddIf(c1, fl.High_RAM, W_High_RAM)
        c3 == AddIf(c2, fl.High_Disk, W_High_Disk)
        c4 == AddIf(c3, fl.Network_Offline, W_Network_Offline)
        c5 == AddIf(c4, fl.Network_Unstable, W_Network_Unstable)
        c6 == AddIf(c5, fl.Missing_Patch, W_Missing_Patch)
        c7 == AddIf(c6, fl.Critical_Vulnerability, W_Critical_Vulnerability)
        c8 == AddIf(c7, fl.Important_Vulnerability, W_Important_Vulnerability)
        c9 == AddIf(c8, fl.Moderate_Vulnerability, W_Moderate_Vulnerability)
        c10 == AddIf(c9, fl.Low_Vulnerability, W_Low_Vulnerability)
        c11 == AddIf(c10, fl.Has_CVE, W_Has_CVE)
    IN  c11

(***************************************************************************)
(* Severity classification: processing.py 211-216.  pd.cut with right=True *)
(* puts x in bin i when bins[i] < x <= bins[i+1], and gives NaN to a value *)
(* outside every bin.                                                      *)
(***************************************************************************)
cut_bins == <<-2, 6, 10, 14, 200>>
cut_labels == <<"Low", "Medium", "High", "Critical">>

\* Mutant of InBin: right=False, bins closed on the left
InBin_LeftClosed(x, i) == cut_bins[i] <= x /\ x < cut_bins[i + 1]

InBin(x, i) == cut_bins[i] < x /\ x <= cut_bins[i + 1]

SeverityLevel(x) ==
    IF \E i \in 1..Len(cut_labels) : InBin(x, i)
    THEN cut_labels[CHOOSE i \in 1..Len(cut_labels) : InBin(x, i)]
    ELSE "NaN"

(***************************************************************************)
(* Problems summary and Total_Problems: processing.py 222-264              *)
(***************************************************************************)
IssueIf(issues, flag, label) == IF flag THEN Append(issues, label) ELSE issues

Issues(fl) ==
    LET i1 == IssueIf(<<>>, fl.High_CPU, "High CPU usage")
        i2 == IssueIf(i1, fl.High_RAM, "High RAM usage")
        i3 == IssueIf(i2, fl.High_Disk, "Disk almost full")
        i4 == IssueIf(i3, fl.Network_Offline, "Network disconnected")
        i5 == IssueIf(i4, fl.Network_Unstable, "Network unstable")
        i6 == IssueIf(i5, fl.Missing_Patch, "Missing security patch")
        i7 == IssueIf(i6, fl.Critical_Vulnerability, "Critical vulnerability")
        i8 == IssueIf(i7, fl.Important_Vulnerability, "Important vulnerability")
        i9 == IssueIf(i8, fl.Moderate_Vulnerability, "Moderate vulnerability")
        i10 == IssueIf(i9, fl.Has_CVE, "CVE identified")
    IN  i10

RECURSIVE Join(_, _)
\* sep.join(parts)
Join(sep, parts) ==
    IF Len(parts) = 0 THEN ""
    ELSE IF Len(parts) = 1 THEN parts[1]
    ELSE parts[1] \o sep \o Join(sep, Tail(parts))

Problems(fl) ==
    IF Len(Issues(fl)) > 0 THEN Join("; ", Issues(fl)) ELSE "No issues detected"

\* bool.astype(int)
AsInt(b) == IF b THEN 1 ELSE 0

\* Mutant of Total_Problems: Low_Vulnerability is counted too
Total_Problems_WithLow(fl) ==
    AsInt(fl.High_CPU) + AsInt(fl.High_RAM) + AsInt(fl.High_Disk)
    + AsInt(fl.Network_Offline) + AsInt(fl.Network_Unstable)
    + AsInt(fl.Missing_Patch) + AsInt(fl.Critical_Vulnerability)
    + AsInt(fl.Important_Vulnerability) + AsInt(fl.Moderate_Vulnerability)
    + AsInt(fl.Low_Vulnerability) + AsInt(fl.Has_CVE)

Total_Problems(fl) ==
    AsInt(fl.High_CPU) + AsInt(fl.High_RAM) + AsInt(fl.High_Disk)
    + AsInt(fl.Network_Offline) + AsInt(fl.Network_Unstable)
    + AsInt(fl.Missing_Patch) + AsInt(fl.Critical_Vulnerability)
    + AsInt(fl.Important_Vulnerability) + AsInt(fl.Moderate_Vulnerability)
    + AsInt(fl.Has_CVE)

(***************************************************************************)
(* detect_problems_and_score: processing.py 92-275                         *)
(***************************************************************************)
\* The flags of row i once every mask is known to hold no NaN
RowFlags(f, names, i) ==
    [High_CPU                |-> High_CPU(f, names, i),
     High_RAM                |-> High_RAM(f, names, i),
     High_Disk               |-> High_Disk(f, names, i),
     Network_Offline         |-> Network_Offline(f, names, i),
     Network_Unstable        |-> Network_Unstable(f, names, i),
     Missing_Patch           |-> Missing_Patch(f, names, i),
     Critical_Vulnerability  |-> Critical_Vulnerability(f, names, i) = "T",
     Important_Vulnerability |-> Important_Vulnerability(f, names, i) = "T",
     Moderate_Vulnerability  |-> Moderate_Vulnerability(f, names, i) = "T",
     Low_Vulnerability       |-> Low_Vulnerability(f, names, i) = "T",
     Has_CVE                 |-> Has_CVE(f, names, i)]

ScoredRow(f, names, i) ==
    LET fl == RowFlags(f, names, i)
    IN  [Computer_ID    |-> f.data["Computer ID"][i],
         cpu            |-> f.data[names.cpu_col][i],
         ram            |-> f.data[names.ram_col][i],
         disk           |-> f.data[names.disk_col][i],
         network        |-> f.data[names.network_col][i],
         patch          |-> f.data[names.patch_col][i],
         severity       |-> f.data[names.severity_col][i],
         cve            |-> f.data[names.cve_col][i],
         flags          |-> fl,
         Critical_Score |-> CriticalScore(fl),
         Severity_Level |-> SeverityLevel(CriticalScore(fl)),
         Problems       |-> Problems(fl),
         Total_Problems |-> Total_Problems(fl)]

\* The exception the function raises on frame f (after synthesis and
\* coercion), or "none":
\*   AttributeError  .str on a column that holds no string (156, 162, 167, 175)
\*   KeyError        df_scored[cve_col] when the column is absent (174)
\*   ValueError      .loc[mask] with a mask that holds NaN (199-202)
DetectError(f, names) ==
    IF ~StrAccessorOk(f.data[names.network_col]) THEN "AttributeError"
    ELSE IF ~StrAccessorOk(f.data[names.patch_col]) THEN "AttributeError"
    ELSE IF ~StrAccessorOk(f.data[names.severity_col]) THEN "AttributeError"
    ELSE IF ~HasColumn(f, names.cve_col) THEN "KeyError"
    ELSE IF ~StrAccessorOk(f.data[names.cve_col]) THEN "AttributeError"
    ELSE IF \E i \in 1..NumRows(f) : Critical_Vulnerability(f, names, i) = "NA"
         THEN "ValueError"
    ELSE "none"

\* The columns the function adds to the frame (183-264)
DerivedColumns ==
    {"High_CPU", "High_RAM", "High_Disk", "Network_Offline", "Network_Unstable",
     "Missing_Patch", "Critical_Vulnerability", "Important_Vulnerability",
     "Moderate_Vulnerability", "Low_Vulnerability", "Has_CVE",
     "Critical_Score", "Severity_Level", "Problems", "Total_Problems"}

detect_problems_and_score(f, sd) ==
    LET names == ResolveColumns(f)
        st == SynthesizeMissing(f, names, sd)
        f1 == EnsureComputerId(st.f)
        f2 == CoerceNumeric(f1, names)
        err == DetectError(f2, names)
    IN  [error |-> err,
         rows  |-> IF err = "none"
                   THEN [i \in 1..NumRows(f2) |-> ScoredRow(f2, names, i)]
                   ELSE <<>>,
         attrs |-> names,
         columns |-> IF err = "none"
                     THEN {f2.columns[j] : j \in 1..Len(f2.columns)}
                          \cup DerivedColumns
                     ELSE {},
         k     |-> st.k]

(***************************************************************************)
(* calculate_kpis: processing.py 291-339.  A rounded value is counted in   *)
(* tenths; the usage columns and Critical_Score are stored in halves.      *)
(***************************************************************************)
\* round(num / den, 0) for num >= 0: a tie goes to the even neighbour
RoundHalfEven(num, den) ==
    LET q == num \div den
        r == num % den
    IN  IF 2 * r < den THEN q
        ELSE IF 2 * r > den THEN q + 1
        ELSE IF q % 2 = 0 THEN q ELSE q + 1

\* A float of the result: a number of tenths, or nan (the mean or the
\* maximum of no rows)
Tenths(v) == [nan |-> FALSE, tenths |-> v]
NanFloat == [nan |-> TRUE, tenths |-> 0]

RECURSIVE SumOf(_)
SumOf(vals) == IF Len(vals) = 0 THEN 0 ELSE Head(vals) + SumOf(Tail(vals))

\* round(series.mean() * scale / unit, 1), the series holding vals / unit
RoundedMean(vals, scale, unit) ==
    IF Len(vals) = 0 THEN NanFloat
    ELSE Tenths(RoundHalfEven(10 * scale * SumOf(vals), unit * Len(vals)))

\* round(series.max(), 1), the series holding vals / unit
RoundedMax(vals, unit) ==
    IF Len(vals) = 0 THEN NanFloat
    ELSE LET m == CHOOSE x \in {vals[i] : i \in 1..Len(vals)} :
                      \A i \in 1..Len(vals) : vals[i] <= x
         IN  Tenths(RoundHalfEven(10 * m, unit))

\* The entries in the order the function computes them, each with the
\* column it reads (291-334)
KpiSteps(names) ==
    << [key |-> "critical_pct", col |-> "Severity_Level"],
       [key |-> "high_pct", col |-> "Severity_Level"],
       [key |-> "medium_pct", col |-> "Severity_Level"],
       [key |-> "low_pct", col |-> "Severity_Level"],
       [key |-> "avg_cpu", col |-> names.cpu_col],
       [key |-> "avg_ram", col |-> names.ram_col],
       [key |-> "avg_disk", col |-> names.disk_col],
       [key |-> "max_cpu", col |-> names.cpu_col],
       [key |-> "max_ram", col |-> names.ram_col],
       [key |-> "max_disk", col |-> names.disk_col],
       [key |-> "machines_with_problems", col |-> "Total_Problems"],
       [key |-> "avg_problems_per_machine", col |-> "Total_Problems"],
       [key |-> "machines_missing_patches", col |-> "Missing_Patch"],
       [key |-> "critical_vulnerabilities", col |-> "Critical_Vulnerability"],
       [key |-> "important_vulnerabilities", col |-> "Important_Vulnerability"],
       [key |-> "machines_with_cve", col |-> "Has_CVE"],
       [key |-> "offline_machines", col |-> "Network_Offline"],
       [key |-> "unstable_connections", col |-> "Network_Unstable"],
       [key |-> "avg_critical_score", col |-> "Critical_Score"],
       [key |-> "max_critical_score", col |-> "Critical_Score"] >>

\* The value of one entry
KpiValue(key, rows) ==
    LET n == Len(rows)
        Level(l) == [i \in 1..n |-> AsInt(rows[i].Severity_Level = l)]
        cpu == [i \in 1..n |-> rows[i].cpu.n]
        ram == [i \in 1..n |-> rows[i].ram.n]
        disk == [i \in 1..n |-> rows[i].disk.n]
        total == [i \in 1..n |-> rows[i].Total_Problems]
        score == [i \in 1..n |-> rows[i].Critical_Score]
        Count(flag) == SumOf([i \in 1..n |-> AsInt(rows[i].flags[flag])])
    IN  CASE key = "critical_pct" -> RoundedMean(Level("Critical"), 100, 1)
          [] key = "high_pct" -> RoundedMean(Level("High"), 100, 1)
          [] key = "medium_pct" -> RoundedMean(Level("Medium"), 100, 1)
          [] key = "low_pct" -> RoundedMean(Level("Low"), 100, 1)
          [] key = "avg_cpu" -> RoundedMean(cpu, 1, 2)
          [] key = "avg_ram" -> RoundedMean(ram, 1, 2)
          [] key = "avg_disk" -> RoundedMean(disk, 1, 2)
          [] key = "max_cpu" -> RoundedMax(cpu, 2)
          [] key = "max_ram" -> RoundedMax(ram, 2)
          [] key = "max_disk" -> RoundedMax(disk, 2)
          [] key = "machines_with_problems" -> SumOf(total)
          [] key = "avg_problems_per_machine" -> RoundedMean(total, 1, 1)
          [] key = "machines_missing_patches" -> Count("Missing_Patch")
          [] key = "critical_vulnerabilities" -> Count("Critical_Vulnerability")
          [] key = "important_vulnerabilities" -> Count("Important_Vulnerability")
          [] key = "machines_with_cve" -> Count("Has_CVE")
          [] key = "offline_machines" -> Count("Network_Offline")
          [] key = "unstable_connections" -> Count("Network_Unstable")
          [] key = "avg_critical_score" -> RoundedMean(score, 1, 2)
          [] key = "max_critical_score" -> RoundedMax(score, 2)

\* str(KeyError(col))
KeyErrorText(col) == "'" \o col \o "'"

\* The dict the function returns for the rows, the columns the frame has and
\* its attrs.  A step whose column is absent raises KeyError; the handler of
\* 335-338 adds the error entry to the dict as it stands at that moment.
calculate_kpis(rows, cols, names) ==
    LET steps == KpiSteps(names)
        failing == {i \in 1..Len(steps) : steps[i].col \notin cols}
        stop == IF failing = {} THEN Len(steps) + 1
                ELSE CHOOSE i \in failing : \A j \in failing : i <= j
        computed == {steps[i].key : i \in 1..(stop - 1)}
        keys == {"total_machines"} \cup computed
                \cup (IF failing = {} THEN {} ELSE {"error"})
    IN  [k \in keys |->
            IF k = "total_machines" THEN Len(rows)
            ELSE IF k = "error"
            THEN "KPI calculation error: " \o KeyErrorText(steps[stop].col)
            ELSE KpiValue(k, rows)]

(***************************************************************************)
(* get_top_critical_machines: processing.py 342-376                        *)
(***************************************************************************)
\* dict.get(key, default)
GetOption(options, key, default) ==
    IF key \in DOMAIN options THEN options[key] ELSE default

\* int(x) of line 345 for a JSON value x: a number is truncated towards
\* zero, a string of digits is parsed, any other string raises ValueError
\* and null raises TypeError
IntRaises(x) == ~(x.t = "num" \/ (x.t = "str" /\ IsDigits(x.s)))

IntError(x) ==
    IF x.t = "str"
    THEN "invalid literal for int() with base 10: " \o KeyErrorText(x.s)
    ELSE "int() argument must be a string, a bytes-like object or a real number, not 'NoneType'"

IntOf(x) ==
    IF x.t = "str" THEN ParseInt(x.s)
    ELSE IF x.n >= 0 THEN x.n \div 2 ELSE -((-x.n) \div 2)

display_cols(names) ==
    <<"Computer ID", "Critical_Score", "Severity_Level", "Total_Problems",
      "Problems", names.cpu_col, names.ram_col, names.disk_col,
      names.network_col, names.patch_col, names.severity_col, names.cve_col>>

\* row[col] for a display column
DisplayCell(row, names, col) ==
    IF col = "Computer ID" THEN row.Computer_ID
    ELSE IF col = "Critical_Score" THEN Num(row.Critical_Score)
    ELSE IF col = "Severity_Level" THEN Str(row.Severity_Level)
    ELSE IF col = "Total_Problems" THEN Num(2 * row.Total_Problems)
    ELSE IF col = "Problems" THEN Str(row.Problems)
    ELSE IF col = names.cpu_col THEN row.cpu
    ELSE IF col = names.ram_col THEN row.ram
    ELSE IF col = names.disk_col THEN row.disk
    ELSE IF col = names.network_col THEN row.network
    ELSE IF col = names.patch_col THEN row.patch
    ELSE IF col = names.severity_col THEN row.severity
    ELSE row.cve

\* The orders sort_values("Critical_Score", ascending=False) can leave the
\* rows in: kind is left at its default 'quicksort', which promises the
\* scores in descending order and nothing about rows of equal score.
SortOrders(rows) ==
    {p \in [1..Len(rows) -> 1..Len(rows)] :
        /\ \A i, j \in 1..Len(rows) : i # j => p[i] # p[j]
        /\ \A i, j \in 1..Len(rows) :
              i < j => rows[p[i]].Critical_Score >= rows[p[j]].Critical_Score}

\* How many rows DataFrame.head(n) keeps of len rows
HeadCount(n, len) ==
    IF n >= 0 THEN (IF n < len THEN n ELSE len)
    ELSE (IF len + n > 0 THEN len + n ELSE 0)

FailedTop(text) == <<[error |-> "Failed to get critical machines: " \o text]>>

\* The lists the function can return
get_top_critical_machines(rows, cols, names, options) ==
    LET option == GetOption(options, "top_n", Num(2 * 5))
        top_n == IntOf(option)
        shown == display_cols(names)
        available_cols == {shown[j] : j \in {k \in 1..Len(shown) : shown[k] \in cols}}
        Records(p) ==
            [i \in 1..HeadCount(top_n, Len(rows)) |->
                [c \in available_cols |-> DisplayCell(rows[p[i]], names, c)]]
    IN  IF IntRaises(option)
        THEN {FailedTop(IntError(option))}
        ELSE IF "Critical_Score" \notin available_cols
        THEN {FailedTop(KeyErrorText("Critical_Score"))}
        ELSE {Records(p) : p \in SortOrders(rows)}

NoKpis == [total_machines |-> -1]
NoTop == <<[error |-> "not called"]>>
NoLookup == [called |-> FALSE]

\* The scoring pipeline at rest, for the specifications of the chatbot
EmptyFrame == [columns |-> <<"Hostname">>, data |-> [c \in {"Hostname"} |-> <<>>]]

NoAttrs ==
    [cpu_col |-> "", ram_col |-> "", disk_col |-> "", network_col |-> "",
     patch_col |-> "", severity_col |-> "", cve_col |-> ""]

ScoreIdle ==
    /\ df = EmptyFrame
    /\ seed = 0
    /\ stage = "idle"
    /\ scored = <<>>
    /\ attrs = NoAttrs
    /\ error = "none"
    /\ columns = {}
    /\ cleaning_options = [drop_na |-> FALSE]
    /\ kpis = NoKpis
    /\ top_critical = NoTop
    /\ lookup = NoLookup

(***************************************************************************)
(* The chatbot: backend/chatboot/main.py.  The endpoints are plain `def`   *)
(* functions, which FastAPI runs on a pool of worker threads, so requests  *)
(* interleave between the steps below.  A similarity score is counted in   *)
(* tenths (0.5 is written 5).                                              *)
(***************************************************************************)
\* Optional values: None, or a value
None == [some |-> FALSE, v |-> ""]
Some(x) == [some |-> TRUE, v |-> x]

\* Python truthiness of an optional string
Truthy(o) == o.some /\ o.v # ""

\* f"{x}" of an optional string
Format(o) == IF o.some THEN o.v ELSE "None"

\* The session dict of lines 37-44, 52-59 and 65-72
NewSession(t) ==
    [created_at           |-> t,
     problem              |-> None,
     solution             |-> None,
     current_step         |-> 0,
     conversation_history |-> <<>>,
     last_activity        |-> t]

\* A turn of the conversation history; a user turn has no "source" key
\* Mutant of BotTurn: every bot turn is tagged "gpt"
BotTurn_Untagged(content, t, source) ==
    [role |-> "bot", content |-> content, timestamp |-> t, source |-> "gpt"]

UserTurn(content, t) ==
    [role |-> "user", content |-> content, timestamp |-> t, source |-> ""]
BotTurn(content, t, source) ==
    [role |-> "bot", content |-> content, timestamp |-> t, source |-> source]

(***************************************************************************)
(* is_followup_question: main.py 242-269                                   *)
(***************************************************************************)
followup_keywords ==
    <<"don't understand", "don't get", "confused", "unclear",
      "step", "how to", "what does", "explain", "clarify",
      "not working", "doesn't work", "still have", "still experiencing",
      "help", "assist", "guide", "walk me through",
      "this didn't work", "this solution didn't work", "it's not working",
      "tried this", "already tried", "still not working", "doesn't help",
      "not helping", "still have the problem", "problem persists">>

negative_words == <<"not", "didn't", "doesn't", "still", "this", "that">>

IsSpace(c) == c \in {" ", "\t", "\n", "\r"}

\* len(question.split()): the number of maximal runs of non-blank characters
WordCount(s) ==
    Cardinality({i \in 1..Len(s) :
        /\ ~IsSpace(SubSeq(s, i, i))
        /\ (i = 1 \/ IsSpace(SubSeq(s, i - 1, i - 1)))})

\* Mutant of is_followup_question: the guard on session["solution"] is gone
is_followup_question_NoGuard(question, session) ==
    \/ AnyKeywordIn(followup_keywords, Lower(question))
    \/ (WordCount(question) <= 5 /\ AnyKeywordIn(negative_words, Lower(question)))

is_followup_question(question, session) ==
    IF ~Truthy(session.solution) THEN FALSE
    ELSE LET question_lower == Lower(question)
             has_followup_keywords == AnyKeywordIn(followup_keywords, question_lower)
             is_short_negative ==
                 /\ WordCount(question) <= 5
                 /\ AnyKeywordIn(negative_words, question_lower)
         IN  has_followup_keywords \/ is_short_negative

(***************************************************************************)
(* build_conversation_context: main.py 271-303                             *)
(***************************************************************************)
\* session["conversation_history"][-4:]
LastTurns(history, k) ==
    IF Len(history) <= k THEN history
    ELSE SubSeq(history, Len(history) - k + 1, Len(history))

RECURSIVE RenderTurns(_)
RenderTurns(turns) ==
    IF Len(turns) = 0 THEN ""
    ELSE (IF Head(turns).role = "user" THEN "User" ELSE "Support")
         \o ": " \o Head(turns).content \o "\n" \o RenderTurns(Tail(turns))

build_conversation_context(session) ==
    "You are an IT support specialist helping with a technical issue.\n\n"
    \o "Previous Problem: " \o Format(session.problem) \o "\n\n"
    \o "Previous Solution Provided: " \o Format(session.solution) \o "\n\n"
    \o "Current Conversation History:\n"
    \o RenderTurns(LastTurns(session.conversation_history, 4))
    \o "\n\nIMPORTANT CONTEXT: The user is currently experiencing issues with: "
    \o Format(session.problem) \o "\n"
    \o "You provided this solution: " \o Format(session.solution) \o "\n\n"
    \o "The user is now saying the solution didn't work or they need clarification. \n\n"
    \o "Please provide a helpful, contextual response that:\n"
    \o "1. Acknowledges their current problem\n"
    \o "2. Offers alternative solutions or troubleshooting steps\n"
    \o "3. Asks clarifying questions if needed\n"
    \o "4. Is supportive and understanding\n\n"
    \o "Be conversational and supportive. If they're saying something isn't working, "
    \o "help troubleshoot further with specific steps."

\* The prompt of ask_gpt_with_context: main.py 310
FullPrompt(question, context) ==
    context \o "\n\nUser's current question: " \o question

\* The prompt of the KB restyling: main.py 130-139
KbPrompt(question, response) ==
    "You are an IT support assistant.\n"
    \o "Below is a knowledge-base solution relevant to the user's problem.\n"
    \o "Rewrite it as a concise, friendly, step-by-step response.\n"
    \o "- Keep only factual steps from the KB, do not invent.\n"
    \o "- Clarify where needed.\n"
    \o "- Prefer bullet points or short numbered steps.\n\n"
    \o "User question: " \o question \o "\n\n"
    \o "Knowledge-base solution:\n" \o response \o "\n"

(***************************************************************************)
(* The external generator: gpt_client.py 22-40.  A call returns a text or  *)
(* raises; `ok` is the outcome the service chooses.                        *)
(***************************************************************************)
GptAnswer == "Try restarting the device."

\* ask_gpt(prompt): [ok, answer, prompt]; attempts lists the outcome of every
\* call made to the service, in order
ask_gpt(prompt, ok) ==
    [ok |-> ok, answer |-> GptAnswer, prompt |-> prompt, attempts |-> <<ok>>]

\* ask_gpt_with_context: main.py 305-317.  A failure of the call with the
\* full prompt is answered by a second call with the question alone.
ask_gpt_with_context(question, context, ok1, ok2) ==
    IF ok1 THEN ask_gpt(FullPrompt(question, context), TRUE)
    ELSE [ask_gpt(question, ok2) EXCEPT !.attempts = <<FALSE>> \o @]

(***************************************************************************)
(* RetrievalSystem.search: retrieval.py 71-94.  The index is external: it  *)
(* returns the best row index (0-based) and its raw inner product.         *)
(***************************************************************************)
KnowledgeBase ==
    <<[Customer_Issue |-> "VPN keeps dropping (Issue 12)",
       Tech_Response  |-> "Restart the VPN client and check the network adapter."]>>

\* threshold=0.5 of line 115 and the 0.5 of line 122, in tenths
Threshold == 5
MinScore == 5

\* np.clip(x, 0.0, 1.0), in tenths
Clip(x) == IF x < 0 THEN 0 ELSE IF x > 10 THEN 10 ELSE x

\* str(query).strip() == ""
IsBlank(s) == \A i \in 1..Len(s) : IsSpace(SubSeq(s, i, i))

\* Mutant of search: content is returned whatever the score
search_NoThreshold(query, best_idx, raw, threshold) ==
    [response |-> Some(KnowledgeBase[best_idx + 1].Tech_Response),
     score |-> Clip(raw),
     matched_issue |-> Some(KnowledgeBase[best_idx + 1].Customer_Issue)]

search(query, best_idx, raw, threshold) ==
    IF IsBlank(query)
    THEN [response |-> None, score |-> 0, matched_issue |-> None]
    ELSE LET best_score == Clip(raw)
         IN  IF best_idx < 0 \/ best_idx >= Len(KnowledgeBase)
             THEN [response |-> None, score |-> 0, matched_issue |-> None]
             ELSE IF best_score >= threshold
             THEN [response |-> Some(KnowledgeBase[best_idx + 1].Tech_Response),
                   score |-> best_score,
                   matched_issue |-> Some(KnowledgeBase[best_idx + 1].Customer_Issue)]
             ELSE [response |-> None, score |-> best_score, matched_issue |-> None]

(***************************************************************************)
(* The state of the chatbot and its requests                               *)
(***************************************************************************)
MaxChats == 2
MaxUuids == 1

\* The worker threads of the pool, in the order the pool tries them
Workers == <<"t1", "t2">>
Threads == {Workers[i] : i \in 1..Len(Workers)}

\* str(uuid.uuid4()): the n-th generated id; no two are equal
Uuid(n) == "uuid-" \o Digit(n % 10)

Questions == {"vpn keeps dropping", "it's still not working"}

\* What the index can answer: the best row and its raw inner product (tenths)
BestRows == {0}
RawScores == {3, 5}

NoneNum == [some |-> FALSE, v |-> 0]
SomeNum(x) == [some |-> TRUE, v |-> x]

NoResult ==
    [status |-> 0, source |-> "", similarity |-> NoneNum, answer |-> "",
     session_id |-> "", is_followup |-> FALSE]

\* The JSON body of a /chat response (status 200)
Result(source, similarity, answer, session_id, is_followup) ==
    [status |-> 200, source |-> source, similarity |-> similarity,
     answer |-> answer, session_id |-> session_id, is_followup |-> is_followup]

\* A worker thread: the locals of the request it serves (fresh: it came
\* without a session id; created: it stored a new session), the response it
\* returned last, and the log of that request's calls to the external
\* services: calls lists the generator calls as [branch, ok], index_raised
\* tells whether the index raised, prompt is the prompt that a follow-up
\* answer was generated from.
IdleThread ==
    [pc |-> "idle", question |-> "", session_id |-> "", session |-> 0,
     is_followup |-> FALSE, response |-> None, score |-> 0,
     gpt_answer |-> "", prompt |-> "", fresh |-> FALSE, created |-> FALSE,
     result |-> NoResult, calls |-> <<>>, index_raised |-> FALSE]

\* The generator calls of one step, as entries of the log
Logged(branch, attempts) ==
    [i \in 1..Len(attempts) |-> [branch |-> branch, ok |-> attempts[i]]]

NoReply == [op |-> "", id |-> "", status |-> 0]

ChatIdle ==
    /\ started = FALSE
    /\ now = 0
    /\ conversation_sessions = [i \in {} |-> 0]
    /\ heap = <<>>
    /\ uuids = 0
    /\ chats = 0
    /\ th = [t \in Threads |-> IdleThread]
    /\ reply = NoReply
    /\ ever_engaged = {}

\* `session_id in conversation_sessions`
InMap(id) == id \in DOMAIN conversation_sessions

\* The session stored under id has both its problem and its solution set
Engaged(id) ==
    /\ InMap(id)
    /\ Truthy(heap[conversation_sessions[id]].problem)
    /\ Truthy(heap[conversation_sessions[id]].solution)

\* conversation_sessions[id] = <a new dict>: the map and the heap after it
Inserted(id, at) ==
    [map  |-> [i \in (DOMAIN conversation_sessions) \cup {id} |->
                 IF i = id THEN Len(heap) + 1 ELSE conversation_sessions[i]],
     heap |-> Append(heap, NewSession(at))]

\* del conversation_sessions[id]
Removed(map, ids) == [i \in (DOMAIN map) \ ids |-> map[i]]

\* session["conversation_history"].append(turn) on the dict at address a
Appended(hp, a, turn) ==
    [hp EXCEPT ![a].conversation_history = Append(@, turn)]

\* The request on thread t returns: its locals go, its log stays
Finish(t, result) ==
    [IdleThread EXCEPT !.result = result,
                       !.calls = th[t].calls,
                       !.index_raised = th[t].index_raised]

\* No request is being served
AllIdle == \A t \in Threads : th[t].pc = "idle"

(***************************************************************************)
(* Startup, time, and the session endpoints                                *)
(***************************************************************************)
SweepAge == 2

\* Mutant of expired_sessions: a session untouched for exactly 24 hours goes
expired_sessions_AtLeast(map, hp, current_time) ==
    {sid \in DOMAIN map : current_time - hp[map[sid]].last_activity >= SweepAge}

\* cleanup_old_sessions: main.py 230-240, run by the startup event
expired_sessions(map, hp, current_time) ==
    {sid \in DOMAIN map : current_time - hp[map[sid]].last_activity > SweepAge}

cleanup_old_sessions ==
    conversation_sessions' =
        Removed(conversation_sessions, expired_sessions(conversation_sessions, heap, now))

Startup ==
    /\ ~started
    /\ started' = TRUE
    /\ cleanup_old_sessions
    /\ UNCHANGED <<now, heap, uuids, chats, th, reply, ever_engaged, pvars>>

\* The clock at the arrival of a request.  A unit of the clock is twelve
\* hours and a request is served in seconds: requests that overlap arrive
\* within one unit, a request that finds the server idle arrives one unit
\* after the one before it.
Arrival == IF AllIdle THEN now + 1 ELSE now

\* start_session: main.py 33-45
start_session ==
    /\ started
    /\ uuids < MaxUuids
    /\ LET session_id == Uuid(uuids + 1)
           ins == Inserted(session_id, Arrival)
       IN  /\ conversation_sessions' = ins.map
           /\ heap' = ins.heap
           /\ reply' = [op |-> "start", id |-> session_id, status |-> 200]
    /\ uuids' = uuids + 1
    /\ now' = Arrival
    /\ UNCHANGED <<started, chats, th, ever_engaged, pvars>>

\* The ids a request can name: the generated ones that a response has
\* returned (the id a /chat request generated for itself is returned only
\* with its response).
KnownIds ==
    {Uuid(n) : n \in 1..uuids}
    \ {th[t].session_id : t \in {u \in Threads : th[u].pc # "idle" /\ th[u].fresh}}

\* Query.session_id and the path parameter of /session/{session_id} are
\* strings of the client's choice: a request can name an id the server never
\* generated
ClientIds == {"client-1"}

RequestIds == KnownIds \cup ClientIds

\* Mutant of get_session: an absent id gets a new session, as in chat
get_session_Creates(session_id) ==
    /\ started
    /\ LET ins == Inserted(session_id, now)
       IN  /\ conversation_sessions' =
                 IF InMap(session_id) THEN conversation_sessions ELSE ins.map
           /\ heap' = IF InMap(session_id) THEN heap ELSE ins.heap
    /\ reply' = [op |-> "get", id |-> session_id, status |-> 200]
    /\ UNCHANGED <<started, now, uuids, chats, th, ever_engaged, pvars>>

\* get_session: main.py 215-220
get_session(session_id) ==
    /\ started
    /\ reply' = [op |-> "get", id |-> session_id,
                 status |-> IF InMap(session_id) THEN 200 ELSE 404]
    /\ UNCHANGED <<started, now, conversation_sessions, heap, uuids, chats, th, ever_engaged, pvars>>

\* Mutant of delete_session: the session is emptied, not removed
delete_session_Empties(session_id) ==
    /\ started
    /\ IF InMap(session_id)
       THEN /\ heap' = [heap EXCEPT ![conversation_sessions[session_id]] = NewSession(now)]
            /\ reply' = [op |-> "delete", id |-> session_id, status |-> 200]
       ELSE /\ reply' = [op |-> "delete", id |-> session_id, status |-> 404]
            /\ UNCHANGED heap
    /\ UNCHANGED <<started, now, conversation_sessions, uuids, chats, th, ever_engaged, pvars>>

\* Mutant of delete_session: the whole map is cleared
delete_session_ClearsAll(session_id) ==
    /\ started
    /\ IF InMap(session_id)
       THEN /\ conversation_sessions' =
                 Removed(conversation_sessions, DOMAIN conversation_sessions)
            /\ reply' = [op |-> "delete", id |-> session_id, status |-> 200]
       ELSE /\ reply' = [op |-> "delete", id |-> session_id, status |-> 404]
            /\ UNCHANGED conversation_sessions
    /\ UNCHANGED <<started, now, heap, uuids, chats, th, ever_engaged, pvars>>

\* delete_session: main.py 222-228
delete_session(session_id) ==
    /\ started
    /\ IF InMap(session_id)
       THEN /\ conversation_sessions' = Removed(conversation_sessions, {session_id})
            /\ reply' = [op |-> "delete", id |-> session_id, status |-> 200]
       ELSE /\ reply' = [op |-> "delete", id |-> session_id, status |-> 404]
            /\ UNCHANGED conversation_sessions
    /\ UNCHANGED <<started, now, heap, uuids, chats, th, ever_engaged, pvars>>

(***************************************************************************)
(* chat: main.py 47-213, one action per step of a request on thread t      *)
(***************************************************************************)
CSess == <<started, now, uuids, ever_engaged, pvars>>

\* The pool hands an arriving request to its first idle worker
FirstIdle(t) ==
    \E i \in 1..Len(Workers) :
        /\ Workers[i] = t
        /\ \A j \in 1..(i - 1) : th[Workers[j]].pc # "idle"

\* Lines 48-64: the request arrives; without a session id a new session is
\* stored under a fresh uuid; then `if session_id not in conversation_sessions`.
ChatReceive(t) ==
    /\ started
    /\ th[t].pc = "idle"
    /\ FirstIdle(t)
    /\ chats < MaxChats
    /\ chats' = chats + 1
    /\ now' = Arrival
    /\ reply' = NoReply
    /\ \E question \in Questions :
        \/ /\ uuids < MaxUuids
           /\ LET session_id == Uuid(uuids + 1)
                  ins == Inserted(session_id, Arrival)
              IN  /\ conversation_sessions' = ins.map
                  /\ heap' = ins.heap
                  /\ th' = [th EXCEPT ![t] =
                              [IdleThread EXCEPT !.pc = "fetch",
                                                 !.question = question,
                                                 !.session_id = session_id,
                                                 !.fresh = TRUE,
                                                 !.created = TRUE]]
           /\ uuids' = uuids + 1
           /\ UNCHANGED <<started, ever_engaged, pvars>>
        \/ \E session_id \in RequestIds :
           /\ th' = [th EXCEPT ![t] =
                       [IdleThread EXCEPT !.pc = IF InMap(session_id)
                                                 THEN "fetch" ELSE "create",
                                          !.question = question,
                                          !.session_id = session_id]]
           /\ UNCHANGED <<started, uuids, conversation_sessions, heap, ever_engaged, pvars>>

\* Mutant of ChatCreate: a request that names an absent id is refused
ChatCreate_NotFound(t) ==
    /\ th[t].pc = "create"
    /\ UNCHANGED <<conversation_sessions, heap>>
    /\ th' = [th EXCEPT ![t] = Finish(t, [NoResult EXCEPT !.status = 404])]
    /\ reply' = NoReply
    /\ UNCHANGED <<CSess, chats>>

\* Lines 65-72: a new session dict is stored under the id
ChatCreate(t) ==
    /\ th[t].pc = "create"
    /\ LET ins == Inserted(th[t].session_id, now)
       IN  /\ conversation_sessions' = ins.map
           /\ heap' = ins.heap
    /\ th' = [th EXCEPT ![t].pc = "fetch", ![t].created = TRUE]
    /\ reply' = NoReply
    /\ UNCHANGED <<CSess, chats>>

\* What the index answers to one query: it raises, or it returns its best
\* row and the raw inner product
IndexAnswers == BOOLEAN \X BestRows \X RawScores

\* Mutant of Retrieved: a match whose score equals the minimum is not used
Retrieved_StrictScore(rec, ans) ==
    LET r == IF ans[1]
             THEN [response |-> None, score |-> 0, matched_issue |-> None]
             ELSE search(rec.question, ans[2], ans[3], Threshold)
    IN  [rec EXCEPT !.response = r.response,
                    !.score = r.score,
                    !.index_raised = ans[1],
                    !.pc = IF Truthy(r.response) /\ r.score > MinScore
                              /\ ~rec.is_followup
                           THEN "set_problem" ELSE "fallback"]

\* Mutant of Retrieved: a match is used whether or not the question is a
\* follow-up
Retrieved_MatchAlways(rec, ans) ==
    LET r == IF ans[1]
             THEN [response |-> None, score |-> 0, matched_issue |-> None]
             ELSE search(rec.question, ans[2], ans[3], Threshold)
    IN  [rec EXCEPT !.response = r.response,
                    !.score = r.score,
                    !.index_raised = ans[1],
                    !.pc = IF Truthy(r.response) /\ r.score >= MinScore
                           THEN "set_problem" ELSE "fallback"]

\* Lines 113-122 and 162-165: retrieval (a failure of the index stands for
\* no match) and the choice between the KB branch and the fallback: the
\* locals of the request after them.
Retrieved(rec, ans) ==
    LET r == IF ans[1]
             THEN [response |-> None, score |-> 0, matched_issue |-> None]
             ELSE search(rec.question, ans[2], ans[3], Threshold)
    IN  [rec EXCEPT !.response = r.response,
                    !.score = r.score,
                    !.index_raised = ans[1],
                    !.pc = IF Truthy(r.response) /\ r.score >= MinScore
                              /\ ~rec.is_followup
                           THEN "set_problem" ELSE "fallback"]

\* Lines 74-87 and, for a question that does not enter the follow-up branch,
\* 113-122: the session dict is read from the map (KeyError when the id has
\* been deleted since line 64), the user turn is appended, the question is
\* classified and the knowledge base is searched.
ChatFetch(t) ==
    /\ th[t].pc = "fetch"
    /\ IF ~InMap(th[t].session_id)
       THEN /\ th' = [th EXCEPT ![t] =
                        Finish(t, [NoResult EXCEPT !.status = 500])]
            /\ UNCHANGED heap
       ELSE LET a == conversation_sessions[th[t].session_id]
                h1 == [heap EXCEPT ![a].last_activity = now]
                h2 == Appended(h1, a, UserTurn(th[t].question, now))
                is_followup == is_followup_question(th[t].question, h2[a])
                rec == [th[t] EXCEPT !.session = a, !.is_followup = is_followup]
            IN  /\ heap' = h2
                /\ IF is_followup /\ Truthy(h2[a].solution)
                   THEN th' = [th EXCEPT ![t] = [rec EXCEPT !.pc = "followup"]]
                   ELSE \E ans \in IndexAnswers :
                            th' = [th EXCEPT ![t] = Retrieved(rec, ans)]
    /\ reply' = NoReply
    /\ UNCHANGED <<CSess, chats, conversation_sessions>>

\* Mutant of ChatFollowup: a generator failure in the follow-up branch ends
\* the request with the error turn
ChatFollowup_Terminal(t) ==
    /\ th[t].pc = "followup"
    /\ \E ok1 \in BOOLEAN, ok2 \in BOOLEAN :
        LET a == th[t].session
            context == build_conversation_context(heap[a])
            g == ask_gpt_with_context(th[t].question, context, ok1, ok2)
            answer == IF g.ok THEN g.answer ELSE "Failed to get an answer. Please try again."
            source == IF g.ok THEN "gpt_context" ELSE "error"
        IN  /\ heap' = Appended(heap, a, BotTurn(answer, now, source))
            /\ th' = [th EXCEPT ![t] =
                        [Finish(t, Result(source, NoneNum, answer,
                                          th[t].session_id, g.ok))
                            EXCEPT !.calls = @ \o Logged("followup", g.attempts)]]
    /\ reply' = NoReply
    /\ UNCHANGED <<CSess, chats, conversation_sessions>>

\* Lines 88-122: the follow-up branch.  The generator answers with the
\* context, or, that call failing, with the question alone; when both calls
\* fail the request goes on to retrieval.  The prompt of the call that gave
\* the returned answer stays with the log of the request.
ChatFollowup(t) ==
    /\ th[t].pc = "followup"
    /\ \E ok1 \in BOOLEAN, ok2 \in BOOLEAN :
        LET a == th[t].session
            context == build_conversation_context(heap[a])
            g == ask_gpt_with_context(th[t].question, context, ok1, ok2)
        IN  IF g.ok
            THEN /\ heap' = Appended(heap, a, BotTurn(g.answer, now, "gpt_context"))
                 /\ th' = [th EXCEPT ![t] =
                             [Finish(t, Result("gpt_context", NoneNum, g.answer,
                                               th[t].session_id, TRUE))
                                 EXCEPT !.calls = @ \o Logged("followup", g.attempts),
                                        !.prompt = g.prompt]]
            ELSE /\ \E ans \in IndexAnswers :
                        th' = [th EXCEPT ![t] =
                                 [Retrieved(th[t], ans)
                                     EXCEPT !.calls = @ \o Logged("followup", g.attempts)]]
                 /\ UNCHANGED heap
    /\ reply' = NoReply
    /\ UNCHANGED <<CSess, chats, conversation_sessions>>

\* Line 124
ChatSetProblem(t) ==
    /\ th[t].pc = "set_problem"
    /\ heap' = [heap EXCEPT ![th[t].session].problem = Some(th[t].question)]
    /\ th' = [th EXCEPT ![t].pc = "set_solution"]
    /\ reply' = NoReply
    /\ UNCHANGED <<CSess, chats, conversation_sessions>>

\* Lines 125-126
ChatSetSolution(t) ==
    /\ th[t].pc = "set_solution"
    /\ heap' = [heap EXCEPT ![th[t].session].solution = th[t].response,
                            ![th[t].session].current_step = 1]
    /\ th' = [th EXCEPT ![t].pc = "polish"]
    /\ reply' = NoReply
    /\ UNCHANGED <<started, now, uuids, pvars, chats, conversation_sessions>>
    /\ ever_engaged' =
         ever_engaged \cup {id \in DOMAIN conversation_sessions : Engaged(id)'}

KbFooter == "\n\nSource: Knowledge Base (RAG)"

\* Mutant of ChatPolish: a generator failure sends the request to the
\* fallback
ChatPolish_FallsThrough(t) ==
    /\ th[t].pc = "polish"
    /\ \E ok \in BOOLEAN :
        LET a == th[t].session
            g == ask_gpt(KbPrompt(th[t].question, th[t].response.v), ok)
            final_answer == g.answer \o "\n\nSource: Knowledge Base (RAG)"
        IN  IF g.ok
            THEN /\ heap' = Appended(heap, a, BotTurn(final_answer, now, "gpt_kb"))
                 /\ th' = [th EXCEPT ![t] =
                             [Finish(t, Result("gpt_kb", SomeNum(th[t].score),
                                               final_answer, th[t].session_id, FALSE))
                                 EXCEPT !.calls = @ \o Logged("kb", g.attempts)]]
            ELSE /\ th' = [th EXCEPT ![t].pc = "fallback",
                                     ![t].calls = @ \o Logged("kb", g.attempts)]
                 /\ UNCHANGED heap
    /\ reply' = NoReply
    /\ UNCHANGED <<CSess, chats, conversation_sessions>>

\* Lines 128-161: the generator restyles the KB answer, the raw KB text
\* standing in when it fails.
ChatPolish(t) ==
    /\ th[t].pc = "polish"
    /\ \E ok \in BOOLEAN :
        LET a == th[t].session
            response == th[t].response.v
            g == ask_gpt(KbPrompt(th[t].question, response), ok)
            polished_answer == IF g.ok THEN g.answer ELSE response
            final_answer == polished_answer \o KbFooter
        IN  /\ heap' = Appended(heap, a, BotTurn(final_answer, now, "gpt_kb"))
            /\ th' = [th EXCEPT ![t] =
                        [Finish(t, Result("gpt_kb", SomeNum(th[t].score), final_answer,
                                          th[t].session_id, FALSE))
                            EXCEPT !.calls = @ \o Logged("kb", g.attempts)]]
    /\ reply' = NoReply
    /\ UNCHANGED <<CSess, chats, conversation_sessions>>

\* The fixed error text of line 197, without its leading symbol
error_msg == "Failed to get an answer. Please try again."

\* Lines 167-174 and 195-213: the fallback asks the generator, with the
\* context when the session has a problem and a solution; a failure is
\* recorded as the error turn.
ChatFallbackAsk(t) ==
    /\ th[t].pc = "fallback"
    /\ \E ok1 \in BOOLEAN, ok2 \in BOOLEAN :
        LET a == th[t].session
            with_context == Truthy(heap[a].problem) /\ Truthy(heap[a].solution)
            g == IF with_context
                 THEN ask_gpt_with_context(th[t].question,
                          build_conversation_context(heap[a]), ok1, ok2)
                 ELSE ask_gpt(th[t].question, ok1)
        IN  IF g.ok
            THEN /\ th' = [th EXCEPT ![t].gpt_answer = g.answer,
                                     ![t].prompt = g.prompt,
                                     ![t].calls = @ \o Logged("fallback", g.attempts),
                                     ![t].pc = "fallback_finish"]
                 /\ UNCHANGED heap
            ELSE /\ heap' = Appended(heap, a, BotTurn(error_msg, now, "error"))
                 /\ th' = [th EXCEPT ![t] =
                             [Finish(t, Result("error", NoneNum, error_msg,
                                               th[t].session_id, FALSE))
                                 EXCEPT !.calls = @ \o Logged("fallback", g.attempts)]]
    /\ reply' = NoReply
    /\ UNCHANGED <<CSess, chats, conversation_sessions>>

\* Lines 176-194: the footer is chosen from the session as it is now
ChatFallbackFinish(t) ==
    /\ th[t].pc = "fallback_finish"
    /\ LET a == th[t].session
           footer == IF Truthy(heap[a].problem) /\ Truthy(heap[a].solution)
                     THEN "Source: GPT with context" ELSE "Source: GPT fallback"
           final_gpt_answer == th[t].gpt_answer \o "\n\n" \o footer
       IN  /\ heap' = Appended(heap, a, BotTurn(final_gpt_answer, now, "gpt"))
           /\ th' = [th EXCEPT ![t] =
                       Finish(t, Result("gpt", NoneNum, final_gpt_answer,
                                        th[t].session_id, FALSE))]
    /\ reply' = NoReply
    /\ UNCHANGED <<CSess, chats, conversation_sessions>>

ChatStep(t) ==
    \/ ChatReceive(t)
    \/ ChatCreate(t)
    \/ ChatFetch(t)
    \/ ChatFollowup(t)
    \/ ChatSetProblem(t)
    \/ ChatSetSolution(t)
    \/ ChatPolish(t)
    \/ ChatFallbackAsk(t)
    \/ ChatFallbackFinish(t)

SessionRequest ==
    \/ start_session
    \/ \E session_id \in RequestIds : get_session(session_id)
    \/ \E session_id \in RequestIds : delete_session(session_id)

(***************************************************************************)
(* The datasets the scoring specification starts from.  A dataset has a    *)
(* Hostname column and any subset of the seven telemetry columns, under    *)
(* the header names below.  FullFrames: one row, all seven columns, the    *)
(* row ranging over the product of the cell samples.  PartialFrames: every *)
(* subset of the columns, 1..MaxRows rows drawn from RowSamples.           *)
(***************************************************************************)
MaxRows == 2
MaxSeed == 1

Fields == <<"cpu", "ram", "disk", "network", "patch", "severity", "cve">>

Header ==
    [cpu |-> "CPU Usage (%)", ram |-> "RAM%", disk |-> "Disk Storage",
     network |-> "Network Status", patch |-> "MissingPatchsKB",
     severity |-> "Severity", cve |-> "CVE identifier(s)"]

CellSamples ==
    [cpu      |-> {Num(170), Num(172)},
     ram      |-> {Num(160), Num(162)},
     disk     |-> {Num(180), Num(182)},
     network  |-> {Str("Online"), Str("OFFLINE"), Str("Poor"), NaN},
     patch    |-> {Str("Release Notes"), Str("Unknown"), Str("KB5002768"),
                   Num(2 * 5002768), NaN},
     severity |-> {Str("None"), Str("Critical"), Str("Important"), Str("Moderate"),
                   Str("Low"), Str("Critical/Important/Moderate/Low"), NaN},
     cve      |-> {Str("CVE-2024-1234"), Str("Unknown"), NaN}]

RowProduct ==
    [cpu : CellSamples.cpu, ram : CellSamples.ram, disk : CellSamples.disk,
     network : CellSamples.network, patch : CellSamples.patch,
     severity : CellSamples.severity, cve : CellSamples.cve]

RowSamples ==
    { [cpu |-> Num(100), ram |-> Num(100), disk |-> Num(100),
       network |-> Str("Online"), patch |-> Str("Release Notes"),
       severity |-> Str("Low"), cve |-> Str("Unknown")],
      [cpu |-> Num(180), ram |-> Num(180), disk |-> Num(190),
       network |-> Str("Disconnected"), patch |-> Str("KB5002754"),
       severity |-> Str("Critical"), cve |-> Str("CVE-2023-1")],
      [cpu |-> Num(172), ram |-> Num(100), disk |-> Num(100),
       network |-> NaN, patch |-> NaN,
       severity |-> Str("moderate"), cve |-> Str("cve-2023-1")],
      [cpu |-> Num(100), ram |-> Num(162), disk |-> Num(100),
       network |-> Str("Unstable"), patch |-> Str("unknown"),
       severity |-> NaN, cve |-> NaN] }

\* The frame with the columns `present` and the given rows
FrameOf(present, rows) ==
    LET IsPresent(fld) == fld \in present
        flds == SelectSeq(Fields, IsPresent)
    IN  [columns |-> <<"Hostname">> \o [j \in 1..Len(flds) |-> Header[flds[j]]],
         data    |-> [c \in {"Hostname"} \cup {Header[fld] : fld \in present} |->
                        IF c = "Hostname"
                        THEN [i \in 1..Len(rows) |-> Str("host")]
                        ELSE LET fld == CHOOSE x \in present : Header[x] = c
                             IN  [i \in 1..Len(rows) |-> rows[i][fld]]]]

AllFields == {Fields[j] : j \in 1..Len(Fields)}

FullFrames == {FrameOf(AllFields, <<r>>) : r \in RowProduct}

PartialFrames ==
    UNION { {FrameOf(present, rows) : rows \in [1..n -> RowSamples]} :
            present \in SUBSET AllFields, n \in 1..MaxRows }

InitScore ==
    /\ \/ df \in FullFrames /\ seed = 0
       \/ df \in PartialFrames /\ seed \in 0..MaxSeed
    /\ stage = "input"
    /\ scored = <<>>
    /\ attrs = NoAttrs
    /\ error = "none"
    /\ columns = {}
    /\ cleaning_options = [drop_na |-> FALSE]
    /\ kpis = NoKpis
    /\ top_critical = NoTop
    /\ lookup = NoLookup
    /\ ChatIdle

\* detect_problems_and_score returns df_scored
DetectReturns ==
    /\ stage = "input"
    /\ \E r \in {detect_problems_and_score(df, seed)} :
           /\ r.error = "none"
           /\ stage' = "scored"
           /\ scored' = r.rows
           /\ attrs' = r.attrs
           /\ columns' = r.columns
           /\ seed' = r.k
           /\ UNCHANGED <<df, error, cleaning_options, kpis, top_critical, lookup, cvars>>

\* detect_problems_and_score raises
DetectRaises ==
    /\ stage = "input"
    /\ \E r \in {detect_problems_and_score(df, seed)} :
           /\ r.error # "none"
           /\ stage' = "raised"
           /\ error' = r.error
           /\ seed' = r.k
           /\ UNCHANGED <<df, scored, attrs, svars, cvars>>

NextScore == DetectReturns \/ DetectRaises

SpecScore == InitScore /\ [][NextScore]_vars

(***************************************************************************)
(* The fleet summary: calculate_kpis and get_top_critical_machines applied *)
(* to a scored frame and an options dict.  The frame is df_scored of a     *)
(* dataset with all seven columns, as it is or with one of the columns the *)
(* two functions read taken away.                                          *)
(***************************************************************************)
SummaryFrames ==
    UNION { {FrameOf(AllFields, rows) : rows \in [1..n -> RowSamples]} :
            n \in 1..MaxRows }

\* The columns either function reads
ReadColumns(names) ==
    {KpiSteps(names)[i].col : i \in 1..Len(KpiSteps(names))}
    \cup {display_cols(names)[i] : i \in 1..Len(display_cols(names))}

InitSummary ==
    /\ df \in SummaryFrames
    /\ seed = 0
    /\ \E r \in {detect_problems_and_score(df, seed)} :
           /\ r.error = "none"
           /\ scored = r.rows
           /\ attrs = r.attrs
           /\ \/ columns = r.columns
              \/ \E c \in ReadColumns(r.attrs) : columns = r.columns \ {c}
    /\ stage = "scored"
    /\ error = "none"
    /\ \/ cleaning_options = [drop_na |-> FALSE]
       \/ \E n \in -1..(MaxRows + 1) : cleaning_options = [top_n |-> Num(2 * n)]
       \/ cleaning_options = [top_n |-> Num(3)]
       \/ cleaning_options = [top_n |-> Str("1")]
       \/ cleaning_options = [top_n |-> Str("all")]
       \/ cleaning_options = [top_n |-> NaN]
    /\ kpis = NoKpis
    /\ top_critical = NoTop
    /\ lookup = NoLookup
    /\ ChatIdle

\* process_data, line 41
CalculateKpis ==
    /\ stage = "scored"
    /\ kpis' = calculate_kpis(scored, columns, attrs)
    /\ stage' = "kpis"
    /\ UNCHANGED <<df, seed, scored, attrs, error, columns, cleaning_options,
                   top_critical, lookup, cvars>>

\* process_data, line 44
GetTopCritical ==
    /\ stage = "kpis"
    /\ top_critical' \in get_top_critical_machines(scored, columns, attrs,
                                                   cleaning_options)
    /\ stage' = "top"
    /\ UNCHANGED <<df, seed, scored, attrs, error, columns, cleaning_options,
                   kpis, lookup, cvars>>

NextSummary == CalculateKpis \/ GetTopCritical

SpecSummary == InitSummary /\ [][NextSummary]_vars

(***************************************************************************)
(* The column resolver on its own (processing.py 96-112): the header of    *)
(* the dataset is any list of at most MaxCols distinct names of the pool,  *)
(* and the names are resolved for it, then once more.                      *)
(***************************************************************************)
MaxCols == 3

HeaderPool ==
    {"CPU Usage (%)", "RAM%", "Disk Storage", "Memory Usage", "Processor Load",
     "Hostname", "Program", "DISK"}

Headers ==
    UNION { {h \in [1..n -> HeaderPool] : \A i, j \in 1..n : i # j => h[i] # h[j]} :
            n \in 1..MaxCols }

\* A one-row dataset under the header h
HeaderFrame(h) ==
    [columns |-> h, data |-> [c \in {h[i] : i \in 1..Len(h)} |-> <<NaN>>]]

InitResolve ==
    /\ \E h \in Headers : df = HeaderFrame(h)
    /\ seed = 0
    /\ stage = "input"
    /\ scored = <<>>
    /\ attrs = NoAttrs
    /\ error = "none"
    /\ columns = {}
    /\ cleaning_options = [drop_na |-> FALSE]
    /\ kpis = NoKpis
    /\ top_critical = NoTop
    /\ lookup = NoLookup
    /\ ChatIdle

\* Lines 96-112
Resolve ==
    /\ stage = "input"
    /\ attrs' = ResolveColumns(df)
    /\ stage' = "resolved"
    /\ UNCHANGED <<df, seed, scored, error, svars, cvars>>

\* Lines 96-112, on the same header a second time
ResolveAgain ==
    /\ stage = "resolved"
    /\ attrs' = ResolveColumns(df)
    /\ stage' = "resolved twice"
    /\ UNCHANGED <<df, seed, scored, error, svars, cvars>>

NextResolve == Resolve \/ ResolveAgain

SpecResolve == InitResolve /\ [][NextResolve]_vars

(***************************************************************************)
(* Datasets for the numeric coercion (processing.py 137-144).  One of the  *)
(* cpu, ram and disk columns holds any 1..MaxCells cells of a numeric      *)
(* column (numbers, empty cells, infinities) or of a text column (digits,  *)
(* other text, "inf", empty cells); of the other two, one holds 50.0 in    *)
(* every row and one is empty in every row.  The remaining columns are     *)
(* well-formed, or the network column is empty and the function raises.    *)
(***************************************************************************)
MaxCells == 3

NumericCells == {Num(170), Num(100), NaN, PosInf, NegInf}
TextCells == {Str("85"), Str("50"), Str("n/a"), NaN, Str("inf"), Str("-inf")}

UsageColumns ==
    UNION { [1..n -> NumericCells] \cup [1..n -> TextCells] : n \in 1..MaxCells }

UsageFields == {"cpu", "ram", "disk"}

CoerceFrames ==
    { FrameOf(AllFields,
              [i \in 1..Len(col) |->
                 [cpu |-> IF fld = "cpu" THEN col[i]
                          ELSE IF fld = "ram" THEN NaN ELSE Num(100),
                  ram |-> IF fld = "ram" THEN col[i]
                          ELSE IF fld = "disk" THEN NaN ELSE Num(100),
                  disk |-> IF fld = "disk" THEN col[i]
                           ELSE IF fld = "cpu" THEN NaN ELSE Num(100),
                  network |-> net, patch |-> Str("Release Notes"),
                  severity |-> Str("Low"), cve |-> Str("Unknown")]]) :
      col \in UsageColumns, fld \in UsageFields, net \in {Str("Online"), NaN} }

InitCoerce ==
    /\ df \in CoerceFrames
    /\ seed = 0
    /\ stage = "input"
    /\ scored = <<>>
    /\ attrs = NoAttrs
    /\ error = "none"
    /\ columns = {}
    /\ cleaning_options = [drop_na |-> FALSE]
    /\ kpis = NoKpis
    /\ top_critical = NoTop
    /\ lookup = NoLookup
    /\ ChatIdle

SpecCoerce == InitCoerce /\ [][NextScore]_vars

(***************************************************************************)
(* The chatbot specifications.  Spec: requests interleave on the worker    *)
(* threads.  SpecSeq: one request at a time, on one thread.                *)
(***************************************************************************)
Init == ChatIdle /\ ScoreIdle

Next ==
    \/ Startup
    \/ SessionRequest
    \/ \E t \in Threads : ChatStep(t)

Spec == Init /\ [][Next]_vars

SeqThread == Workers[1]

NextSeq ==
    \/ Startup
    \/ AllIdle /\ SessionRequest
    \/ ChatStep(SeqThread)

SpecSeq == Init /\ [][NextSeq]_vars

(***************************************************************************)
(* The startup sweep on a map that holds sessions.  The startup event of   *)
(* the server finds the module's map empty; cleanup_old_sessions reads the *)
(* map and the clock, and SpecSweep starts it on the maps that earlier     *)
(* requests can have left (k generated ids, any of the client's ids, each  *)
(* session untouched for SweepAge - 1, SweepAge or SweepAge + 1 units),    *)
(* then serves requests one at a time as SpecSeq does.                     *)
(***************************************************************************)
SweepAges == {SweepAge - 1, SweepAge, SweepAge + 1}

\* The map and the heap that hold a new session for each id of `stored`,
\* last touched `age[id]` units before `at`
StoredSessions(stored, age, at) ==
    LET order == CHOOSE f \in [1..Cardinality(stored) -> stored] :
                     \A i, j \in 1..Cardinality(stored) : i # j => f[i] # f[j]
    IN  [map  |-> [id \in stored |->
                     CHOOSE i \in 1..Cardinality(stored) : order[i] = id],
         heap |-> [i \in 1..Cardinality(stored) |-> NewSession(at - age[order[i]])]]

InitSweep ==
    /\ started = FALSE
    /\ now = SweepAge + 1
    /\ \E k \in 0..MaxUuids, named \in SUBSET ClientIds :
          \E age \in [{Uuid(n) : n \in 1..k} \cup named -> SweepAges] :
             \E st \in {StoredSessions(DOMAIN age, age, now)} :
                /\ uuids = k
                /\ conversation_sessions = st.map
                /\ heap = st.heap
    /\ chats = 0
    /\ th = [t \in Threads |-> IdleThread]
    /\ reply = NoReply
    /\ ever_engaged = {}
    /\ ScoreIdle

SpecSweep == InitSweep /\ [][NextSeq]_vars

(***************************************************************************)
(* One call of RetrievalSystem.search (retrieval.py 71-94) on the          *)
(* knowledge base: the caller chooses the query, top_k and the threshold,  *)
(* the index answers a row of the knowledge base and a raw inner product.  *)
(* Scores and thresholds are in tenths.                                    *)
(***************************************************************************)
Queries == {"", " ", "  ", "vpn keeps dropping", "it's still not working"}
TopKs == 0..2
Thresholds == 0..11
IndexScores == -2..12

NoAnswer == [response |-> None, score |-> 0, matched_issue |-> None]

InitSearch ==
    /\ \E q \in Queries, k \in TopKs, th0 \in Thresholds :
          lookup = [called |-> FALSE, query |-> q, top_k |-> k, threshold |-> th0,
                    queried |-> FALSE, raised |-> FALSE, best_idx |-> 0,
                    raw |-> 0, result |-> NoAnswer]
    /\ df = EmptyFrame
    /\ seed = 0
    /\ stage = "idle"
    /\ scored = <<>>
    /\ attrs = NoAttrs
    /\ error = "none"
    /\ columns = {}
    /\ cleaning_options = [drop_na |-> FALSE]
    /\ kpis = NoKpis
    /\ top_critical = NoTop
    /\ ChatIdle

SearchUnchanged ==
    UNCHANGED <<df, seed, stage, scored, attrs, error, columns,
                cleaning_options, kpis, top_critical, cvars>>

\* Lines 76-77: a blank query returns before the encoder and the index
SearchBlank ==
    /\ ~lookup.called
    /\ IsBlank(lookup.query)
    /\ lookup' = [lookup EXCEPT !.called = TRUE,
                                !.result = search(lookup.query, 0, 0,
                                                  lookup.threshold)]
    /\ SearchUnchanged

\* Lines 79-94: the query is encoded, the index is searched for
\* max(1, top_k) rows and answers its best row
SearchIndex ==
    /\ ~lookup.called
    /\ ~IsBlank(lookup.query)
    /\ \E best_idx \in 0..(Len(KnowledgeBase) - 1), raw \in IndexScores :
          lookup' = [lookup EXCEPT !.called = TRUE,
                                  !.queried = TRUE,
                                  !.best_idx = best_idx,
                                  !.raw = raw,
                                  !.result = search(lookup.query, best_idx, raw,
                                                    lookup.threshold)]
    /\ SearchUnchanged

\* Lines 79-80: the encoder or the index raises, and so does search
SearchRaises ==
    /\ ~lookup.called
    /\ ~IsBlank(lookup.query)
    /\ lookup' = [lookup EXCEPT !.called = TRUE, !.queried = TRUE,
                                !.raised = TRUE]
    /\ SearchUnchanged

NextSearch == SearchBlank \/ SearchIndex \/ SearchRaises

SpecSearch == InitSearch /\ [][NextSearch]_vars

(***************************************************************************)
(* Claims about detect_problems_and_score, checked under SpecScore         *)
(***************************************************************************)
FlagNames ==
    {"High_CPU", "High_RAM", "High_Disk", "Network_Offline", "Network_Unstable",
     "Missing_Patch", "Critical_Vulnerability", "Important_Vulnerability",
     "Moderate_Vulnerability", "Low_Vulnerability", "Has_CVE"}

\* The weight table of the specification (section 4.2), in halves
TableWeight(name) ==
    CASE name = "High_CPU" -> 4
      [] name = "High_RAM" -> 3
      [] name = "High_Disk" -> 4
      [] name = "Network_Offline" -> 6
      [] name = "Network_Unstable" -> 4
      [] name = "Missing_Patch" -> 4
      [] name = "Critical_Vulnerability" -> 6
      [] name = "Important_Vulnerability" -> 4
      [] name = "Moderate_Vulnerability" -> 2
      [] name = "Low_Vulnerability" -> 1
      [] name = "Has_CVE" -> 2

RECURSIVE SumWeights(_)
SumWeights(names) ==
    IF names = {} THEN 0
    ELSE LET x == CHOOSE y \in names : TRUE
         IN  TableWeight(x) + SumWeights(names \ {x})

TrueFlags(fl) == {name \in FlagNames : fl[name]}

\* C1: in every dataset the function scores, each row's Critical_Score is the
\* sum of the table weights of the row's true flags (0 when none is true).
C1_ScoreIsWeightedSum ==
    stage = "scored" =>
        \A i \in 1..Len(scored) :
            scored[i].Critical_Score = SumWeights(TrueFlags(scored[i].flags))

\* C1 witness: a scored row with ten true flags (all but Network_Unstable)
\* and score 18.0, next to the flag-free case being reachable as well.
C1_Witness ==
    /\ stage = "scored"
    /\ \E i \in 1..Len(scored) :
        /\ TrueFlags(scored[i].flags) = FlagNames \ {"Network_Unstable"}
        /\ scored[i].Critical_Score = 36

\* C2: every scored row has exactly one level, by the right-closed bins
\* (.., 3], (3, 5], (5, 7], (7, ..): Low iff s <= 3, Medium iff 3 < s <= 5,
\* High iff 5 < s <= 7, Critical iff s > 7 (scores in halves).
C2_SeverityBins ==
    stage = "scored" =>
        \A i \in 1..Len(scored) :
            LET sc == scored[i].Critical_Score
                lv == scored[i].Severity_Level
            IN  /\ lv \in {"Low", "Medium", "High", "Critical"}
                /\ (lv = "Low") <=> (sc <= 6)
                /\ (lv = "Medium") <=> (6 < sc /\ sc <= 10)
                /\ (lv = "High") <=> (10 < sc /\ sc <= 14)
                /\ (lv = "Critical") <=> (sc > 14)

\* C2 witness: a row whose score sits on the edge 5.0 and is Medium
C2_Witness ==
    /\ stage = "scored"
    /\ \E i \in 1..Len(scored) :
        scored[i].Critical_Score = 10 /\ scored[i].Severity_Level = "Medium"

\* C3 (as claimed): the function never raises because an input column is
\* absent.  KeyError is the exception of reading an absent column.
C3_MissingColumnNeverRaises ==
    ~(stage = "raised" /\ error = "KeyError")

TenFlags == FlagNames \ {"Low_Vulnerability"}

\* C4: Total_Problems is the number of true flags among the ten that are not
\* Low_Vulnerability, Problems never names a low vulnerability, and a row
\* whose only true flag is Low_Vulnerability has score 0.5, no problem and
\* the summary "No issues detected".
C4_LowVulnNotCounted ==
    stage = "scored" =>
        \A i \in 1..Len(scored) :
            LET r == scored[i]
            IN  /\ r.Total_Problems = Cardinality({n \in TenFlags : r.flags[n]})
                /\ ~Contains(Lower(r.Problems), "low vulnerability")
                /\ TrueFlags(r.flags) = {"Low_Vulnerability"} =>
                       /\ r.Critical_Score = 1
                       /\ r.Total_Problems = 0
                       /\ r.Problems = "No issues detected"

\* C4 witness: a scored row whose only true flag is Low_Vulnerability
C4_Witness ==
    /\ stage = "scored"
    /\ \E i \in 1..Len(scored) : TrueFlags(scored[i].flags) = {"Low_Vulnerability"}

\* C5 (as claimed): the stage never raises for a malformed cell.
\* AttributeError and ValueError are the exceptions of a text column that
\* holds an empty or non-string cell.
C5_MalformedCellNeverRaises ==
    ~(stage = "raised" /\ error \in {"AttributeError", "ValueError"})

(***************************************************************************)
(* Claims about the conversation router.  C6-C9 and C11-C14 are about      *)
(* requests served one after the other (SpecSeq), C10 and C15 about        *)
(* requests served concurrently (Spec).  The locals of a request are read  *)
(* in the state before it returns, its response in the state after.        *)
(***************************************************************************)
\* The step in which the request on thread t returns
Returns(t) == th[t].pc # "idle" /\ th'[t].pc = "idle"

\* C6: a question that is not classified as a follow-up and for which
\* retrieval returns a match with score >= 0.5 is answered with source
\* "gpt_kb", similarity equal to that score and is_followup false, and the
\* session's problem is then the question and its solution the matched KB
\* response, whatever they were before.
C6_KbMatchIsAnswered ==
    [][\A t \in Threads :
        (/\ Returns(t)
         /\ ~th[t].is_followup
         /\ Truthy(th[t].response)
         /\ th[t].score >= MinScore)
        => /\ th'[t].result.status = 200
           /\ th'[t].result.source = "gpt_kb"
           /\ th'[t].result.similarity = SomeNum(th[t].score)
           /\ th'[t].result.is_followup = FALSE
           /\ heap'[th[t].session].problem = Some(th[t].question)
           /\ heap'[th[t].session].solution = th[t].response]_vars

\* A second KB answer on a session has replaced the problem of the first
C6_Witness ==
    \E t \in Threads :
        /\ th[t].pc = "idle"
        /\ th[t].result.source = "gpt_kb"
        /\ th[t].result.similarity = SomeNum(MinScore)
        /\ InMap(th[t].result.session_id)
        /\ LET S == heap[conversation_sessions[th[t].result.session_id]]
           IN  /\ Len(S.conversation_history) = 4
               /\ S.conversation_history[1].content = "it's still not working"
               /\ S.conversation_history[2].source = "gpt_kb"
               /\ S.problem = Some("vpn keeps dropping")
               /\ S.solution = Some(KnowledgeBase[1].Tech_Response)

\* The request on thread t once its question has been classified
Classified(t) == IF th[t].pc = "fetch" THEN th'[t] ELSE th[t]

\* C7, as the code has it: a request whose question is classified as a
\* follow-up (which needs the session's solution to be set) never changes
\* the session's problem or solution and is never answered with "gpt_kb",
\* whatever the knowledge base scores; its source is "gpt_context" exactly
\* when the generator answers in the follow-up branch, and "gpt" or "error",
\* with is_followup false, when both generator attempts of that branch fail.
C7_FollowupKeepsTopic ==
    [][\A t \in Threads :
        (Classified(t).pc # "idle" /\ Classified(t).is_followup)
        => LET a == Classified(t).session
           IN  /\ heap'[a].problem = heap[a].problem
               /\ heap'[a].solution = heap[a].solution
               /\ Returns(t) =>
                    /\ th'[t].result.source \in {"gpt_context", "gpt", "error"}
                    /\ (th'[t].result.source = "gpt_context") <=> (th[t].pc = "followup")
                    /\ th'[t].result.is_followup <=> (th[t].pc = "followup")]_vars

\* A follow-up on an engaged session has been answered with the context
C7_Witness ==
    \E t \in Threads :
        /\ th[t].pc = "idle"
        /\ th[t].result.source = "gpt_context"
        /\ th[t].result.is_followup
        /\ Engaged(th[t].result.session_id)
        /\ LET S == heap[conversation_sessions[th[t].result.session_id]]
           IN  /\ Len(S.conversation_history) = 4
               /\ S.conversation_history[3].content = "it's still not working"
               /\ S.conversation_history[4].source = "gpt_context"
               /\ S.problem = Some("vpn keeps dropping")

\* C7 as stated: every follow-up on a session with a solution is answered
\* with source "gpt_context".
C7_FollowupIsAlwaysContext ==
    [][\A t \in Threads :
        (Returns(t) /\ th[t].is_followup)
        => th'[t].result.source = "gpt_context"]_vars

\* The number of turns in all the histories
RECURSIVE TotalTurns(_)
TotalTurns(hp) ==
    IF Len(hp) = 0 THEN 0
    ELSE Len(Head(hp).conversation_history) + TotalTurns(Tail(hp))

\* The turns of a history are a user's and a bot's in alternation
Alternates(history) ==
    \A i \in 1..Len(history) :
        history[i].role = IF i % 2 = 1 THEN "user" ELSE "bot"

\* C8: every chat request served after the one before it has returned, in
\* whichever branch it ends and whatever the generator or the index does,
\* returns normally having appended to its session's history the user turn
\* holding the question and then exactly one bot turn, whose source tag is
\* the source returned to the caller; after n such requests the histories
\* hold 2n turns, user and bot in alternation.
C8_OneUserOneBotTurn ==
    [][/\ \A t \in Threads :
            Returns(t) =>
                LET a  == th[t].session
                    h  == heap[a].conversation_history
                    h2 == heap'[a].conversation_history
                    r  == th'[t].result
                IN  /\ r.status = 200
                    /\ Len(h) >= 1
                    /\ h[Len(h)].role = "user"
                    /\ h[Len(h)].content = th[t].question
                    /\ Len(h2) = Len(h) + 1
                    /\ SubSeq(h2, 1, Len(h)) = h
                    /\ h2[Len(h2)].role = "bot"
                    /\ h2[Len(h2)].source = r.source
                    /\ h2[Len(h2)].content = r.answer
       /\ AllIdle' =>
            /\ TotalTurns(heap') = 2 * chats'
            /\ \A a \in 1..Len(heap') : Alternates(heap'[a].conversation_history)]_vars

\* Two requests on one session, the second ending in the error branch
C8_Witness ==
    \E t \in Threads :
        /\ th[t].pc = "idle"
        /\ th[t].result.source = "error"
        /\ chats = 2
        /\ InMap(th[t].result.session_id)
        /\ LET S == heap[conversation_sessions[th[t].result.session_id]]
           IN  /\ Len(S.conversation_history) = 4
               /\ S.conversation_history[2].source = "gpt_kb"
               /\ S.conversation_history[3].role = "user"
               /\ S.conversation_history[4].source = "error"

\* The ids a request can name
Ids == {Uuid(n) : n \in 1..MaxUuids} \cup ClientIds

\* C9, as the code has it: a session that has both problem and solution set
\* keeps both set for as long as it is stored; it leaves the session map
\* only by a delete_session on its id that answers 200 (after which a chat
\* naming the id stores a session with neither set under it).
C9_EngagedUntilDeleted ==
    [][\A id \in Ids :
        Engaged(id) =>
            \/ Engaged(id)'
            \/ /\ ~InMap(id)'
               /\ reply' = [op |-> "delete", id |-> id, status |-> 200]]_vars

\* A session with problem and solution has served a second request, has
\* both still, and a get_session on its id has been answered
C9_Witness ==
    \E id \in Ids :
        /\ Engaged(id)
        /\ Len(heap[conversation_sessions[id]].conversation_history) = 4
        /\ AllIdle
        /\ reply.op = "get"
        /\ reply.id = id

\* The history variable holds every id whose session has both set
EverEngagedIsHistory == \A id \in Ids : Engaged(id) => id \in ever_engaged

\* C9 as stated: once the session stored under an id has both problem and
\* solution set, no later state shows a session under that id with problem
\* or solution unset.
C9_NeverFreshAgain ==
    \A id \in ever_engaged : InMap(id) => Engaged(id)

\* C10: when chat requests run concurrently their effects on a session are
\* as if they had run one after the other: once the requests have returned,
\* every user turn of a history is immediately followed by a bot turn.
C10_SessionUpdatesSerialized ==
    AllIdle => \A a \in 1..Len(heap) : Alternates(heap[a].conversation_history)

\* The generator calls the last request on thread t made in a branch
CallsIn(t, branch) ==
    LET InBranch(c) == c.branch = branch
    IN  SelectSeq(th[t].calls, InBranch)

AllFailed(calls) == \A i \in 1..Len(calls) : ~calls[i].ok

Sources == {"gpt_kb", "gpt_context", "gpt", "error"}

\* C11: every chat request returns normally with a source among gpt_kb,
\* gpt_context, gpt and error; the source is "error", with the fixed error
\* message as answer, exactly when the request reached the final fallback
\* and every generator call made there failed; failed generator calls of the
\* follow-up branch or of the KB restyling, and an index that raises, never
\* do that by themselves.
C11_ErrorOnlyFromFallback ==
    \A t \in Threads :
        (th[t].pc = "idle" /\ th[t].result # NoResult) =>
            /\ th[t].result.status = 200
            /\ th[t].result.source \in Sources
            /\ (th[t].result.source = "error") <=>
                   (/\ CallsIn(t, "fallback") # <<>>
                    /\ AllFailed(CallsIn(t, "fallback")))
            /\ (th[t].result.source = "error") => (th[t].result.answer = error_msg)
            /\ (th[t].result.source = "gpt_kb") => (CallsIn(t, "fallback") = <<>>)

\* A follow-up whose two generator calls failed and whose retrieval raised
\* has reached the fallback, whose two calls failed too, and has got the
\* error message
C11_Witness ==
    \E t \in Threads :
        /\ th[t].pc = "idle"
        /\ th[t].index_raised
        /\ Len(CallsIn(t, "followup")) = 2
        /\ AllFailed(CallsIn(t, "followup"))
        /\ Len(CallsIn(t, "fallback")) = 2
        /\ AllFailed(CallsIn(t, "fallback"))
        /\ th[t].result.source = "error"

\* The request on thread t arrives
Arrives(t) == th[t].pc = "idle" /\ th'[t].pc # "idle"

\* The step leaves under id a session dict as lines 37-44 build it
NewlyStored(id) ==
    /\ InMap(id)'
    /\ heap'[conversation_sessions'[id]] = NewSession(now')

\* C12: a chat request that names no session id gets a new session under a
\* uuid that is not in the map; one that names an id absent from the map
\* (never created, or deleted) gets a new session under that id; the new
\* session has an empty history and neither problem nor solution.  The
\* request is then served on it: it returns 200 (never 404) with that id,
\* and the session, still stored under the id, holds the exchange of this
\* request and nothing before it.
C12_ChatCreatesMissingSession ==
    [][\A t \in Threads :
        /\ \A id \in Ids :
              (Arrives(t) /\ th'[t].session_id = id) =>
                  IF th'[t].fresh
                  THEN ~InMap(id) /\ NewlyStored(id) /\ th'[t].pc = "fetch"
                  ELSE IF InMap(id)
                  THEN ~th'[t].created /\ th'[t].pc = "fetch"
                  ELSE th'[t].pc = "create"
        /\ Arrives(t) => th'[t].session_id \in Ids
        /\ \A id \in Ids :
              (th[t].pc = "create" /\ th[t].session_id = id) =>
                  /\ NewlyStored(id)
                  /\ th'[t].pc = "fetch"
                  /\ th'[t].created
        /\ \A id \in Ids :
              (Returns(t) /\ th[t].session_id = id) =>
                  /\ th'[t].result.status = 200
                  /\ th'[t].result.session_id = id
                  /\ InMap(id)'
                  /\ conversation_sessions'[id] = th[t].session
                  /\ th[t].created =>
                        LET S == heap'[th[t].session]
                        IN  /\ Len(S.conversation_history) = 2
                            /\ S.conversation_history[1].role = "user"
                            /\ S.conversation_history[1].content = th[t].question
                            /\ S.problem \in {None, Some(th[t].question)}]_vars

\* A session was deleted, and a chat that named its id afterwards has been
\* served on a new session stored under that id
C12_Witness ==
    \E t \in Threads :
        /\ th[t].pc = "idle"
        /\ chats = 2
        /\ th[t].result.status = 200
        /\ th[t].result.session_id \in ClientIds
        /\ InMap(th[t].result.session_id)
        /\ uuids = 0
        /\ Len(heap) = 2
        /\ conversation_sessions[th[t].result.session_id] = 2
        /\ Len(heap[1].conversation_history) = 2
        /\ Len(heap[2].conversation_history) = 2

\* C13: get_session and delete_session on an id that is not in the session
\* map (never created, or deleted) answer 404 and leave the map and the
\* sessions as they are; a delete_session on a stored id answers 200 and
\* removes it; and an id that is not in the map enters it only by a chat
\* request that names it or by the server generating it for the first time.
\* Hence after a successful delete every get and delete on the id answers
\* 404 until a chat names the id again.
C13_DeletedStaysNotFound ==
    [][\A id \in Ids :
        /\ (~InMap(id) /\ reply'.op \in {"get", "delete"} /\ reply'.id = id) =>
              /\ reply'.status = 404
              /\ UNCHANGED <<conversation_sessions, heap>>
        /\ (InMap(id) /\ reply'.op = "get" /\ reply'.id = id) =>
              /\ reply'.status = 200
              /\ UNCHANGED <<conversation_sessions, heap>>
        /\ (InMap(id) /\ reply'.op = "delete" /\ reply'.id = id) =>
              /\ reply'.status = 200
              /\ ~InMap(id)'
              /\ \A other \in Ids \ {id} : InMap(other)' <=> InMap(other)
        /\ (~InMap(id) /\ InMap(id)') =>
              \/ \E t \in Threads : th'[t].pc = "fetch" /\ th'[t].session_id = id
                                       /\ th'[t].created
              \/ reply' = [op |-> "start", id |-> id, status |-> 200]
                 /\ id = Uuid(uuids') /\ uuids' = uuids + 1]_vars

\* The session of client-1 was deleted, and a second delete_session on the
\* id has been answered 404
C13_Witness ==
    /\ reply = [op |-> "delete", id |-> "client-1", status |-> 404]
    /\ ~InMap("client-1")
    /\ uuids = 0
    /\ Len(heap) = 1
    /\ Len(heap[1].conversation_history) = 2

\* C14: the KB branch always returns, with source "gpt_kb" and the retrieval
\* score.  When the restyling call to the generator fails the answer is the
\* raw KB response followed by the Knowledge Base footer, and when it
\* succeeds the generator's text followed by the footer; in both cases the
\* answer is appended as a "gpt_kb" turn and the session's problem is the
\* question and its solution the raw KB response.
C14_RestyleFailureGivesRawKb ==
    [][\A t \in Threads :
        (th[t].pc = "polish") =>
            /\ Returns(t)
            /\ Len(th'[t].calls) = Len(th[t].calls) + 1
            /\ th'[t].calls[Len(th'[t].calls)].branch = "kb"
            /\ th'[t].result.status = 200
            /\ th'[t].result.source = "gpt_kb"
            /\ th'[t].result.similarity = SomeNum(th[t].score)
            /\ th'[t].result.answer =
                  (IF th'[t].calls[Len(th'[t].calls)].ok
                   THEN GptAnswer ELSE th[t].response.v) \o KbFooter
            /\ heap'[th[t].session].problem = Some(th[t].question)
            /\ heap'[th[t].session].solution = th[t].response
            /\ heap'[th[t].session].conversation_history =
                  Append(heap[th[t].session].conversation_history,
                         BotTurn(th'[t].result.answer, now, "gpt_kb"))]_vars

\* A KB answer whose restyling failed has been returned raw
C14_Witness ==
    \E t \in Threads :
        /\ th[t].pc = "idle"
        /\ th[t].calls = <<[branch |-> "kb", ok |-> FALSE]>>
        /\ th[t].result.source = "gpt_kb"
        /\ th[t].result.answer = KnowledgeBase[1].Tech_Response \o KbFooter
        /\ Engaged(th[t].result.session_id)
        /\ heap[conversation_sessions[th[t].result.session_id]].solution
             = Some(KnowledgeBase[1].Tech_Response)

\* The step is a step of a chat request that names id
ChatStepOn(id) ==
    \E t \in Threads :
        /\ th'[t] # th[t]
        /\ \/ th[t].pc # "idle" /\ th[t].session_id = id
           \/ th[t].pc = "idle" /\ th'[t].session_id = id

\* The step is a get_session or a delete_session on id
SessionStepOn(id) ==
    /\ reply'.op \in {"get", "delete"}
    /\ reply'.id = id

\* The session stored under id is the same dict, with the same content,
\* after the step
Untouched(id) ==
    /\ InMap(id)'
    /\ conversation_sessions'[id] = conversation_sessions[id]
    /\ heap'[conversation_sessions[id]] = heap[conversation_sessions[id]]

\* C15: in every interleaving of requests, a step of a chat, get_session or
\* delete_session request on an id leaves every session stored under
\* another id in the map, with its history, problem, solution and
\* last_activity unchanged.
C15_OtherSessionsUntouched ==
    [][\A id \in Ids :
        (ChatStepOn(id) \/ SessionStepOn(id)) =>
            \A other \in Ids \ {id} : InMap(other) => Untouched(other)]_vars

\* Two requests on two sessions have overlapped, and each session holds
\* the exchange of its own request
C15_Witness ==
    /\ AllIdle
    /\ \A t \in Threads : th[t].result.status = 200
    /\ \E id1 \in Ids, id2 \in Ids :
        /\ id1 # id2
        /\ th[Workers[1]].result.session_id = id1
        /\ th[Workers[2]].result.session_id = id2
        /\ InMap(id1) /\ InMap(id2)
        /\ Len(heap[conversation_sessions[id1]].conversation_history) = 2
        /\ Len(heap[conversation_sessions[id2]].conversation_history) = 2
        /\ heap[conversation_sessions[id1]].conversation_history[2].content
             = th[Workers[1]].result.answer
        /\ heap[conversation_sessions[id2]].conversation_history[2].content
             = th[Workers[2]].result.answer
        /\ Engaged(id1) /\ ~Engaged(id2)

(***************************************************************************)
(* Claims about the scoring and the fleet summary (SpecScore)              *)
(***************************************************************************)
\* The scores the function gives to the one-row datasets of FullFrames
ScoresOf(f) ==
    LET r == detect_problems_and_score(f, 0)
    IN  {r.rows[i].Critical_Score : i \in 1..Len(r.rows)}

AttainableScores == UNION {ScoresOf(f) : f \in FullFrames}

MaxOf(S) == CHOOSE m \in S : \A x \in S : x <= m

\* C16, as the code has it: the largest Critical_Score is 18.0 (36 halves).
\* Network_Offline and Network_Unstable test one cell against disjoint value
\* lists, so no row has both, and the other ten weights add up to 18.0.
C16_MaxScoreIs18 ==
    /\ MaxOf(AttainableScores) = 36
    /\ stage = "scored" =>
         \A i \in 1..Len(scored) :
            /\ scored[i].Critical_Score <= 36
            /\ ~(scored[i].flags.Network_Offline /\ scored[i].flags.Network_Unstable)

\* A row with every flag but Network_Unstable: 18.0, level Critical
C16_Witness ==
    /\ stage = "scored"
    /\ \E i \in 1..Len(scored) :
        /\ scored[i].Critical_Score = 36
        /\ scored[i].flags.Network_Offline
        /\ scored[i].Severity_Level = "Critical"
        /\ scored[i].Total_Problems = 9

\* C16 as stated: the largest Critical_Score is 19.0 (38 halves): no row
\* scores more, and a row that scores the most a row can score has 19.0
C16_MaxScoreIs19 ==
    stage = "scored" =>
        \A i \in 1..Len(scored) :
            /\ scored[i].Critical_Score <= 38
            /\ scored[i].Critical_Score = MaxOf(AttainableScores)
                 => scored[i].Critical_Score = 38

(***************************************************************************)
(* Claims about the fleet summary, checked under SpecSummary               *)
(***************************************************************************)
\* get_top_critical_machines got as far as sorting, with N >= 0
TopSorted ==
    /\ stage = "top"
    /\ "Critical_Score" \in columns
    /\ "Computer ID" \in columns
    /\ ~IntRaises(GetOption(cleaning_options, "top_n", Num(2 * 5)))
    /\ IntOf(GetOption(cleaning_options, "top_n", Num(2 * 5))) >= 0

TopN == IntOf(GetOption(cleaning_options, "top_n", Num(2 * 5)))

\* The position in the dataset of the machine of a returned entry
RowOf(entry) ==
    CHOOSE i \in 1..Len(scored) : scored[i].Computer_ID = entry["Computer ID"]

\* min(N, number of machines) entries, scores descending, and every machine
\* left out scores no more than any machine returned
TopIsSortedPrefix ==
    TopSorted =>
        /\ Len(top_critical) = (IF TopN < Len(scored) THEN TopN ELSE Len(scored))
        /\ \A i, j \in 1..Len(top_critical) :
              i < j => top_critical[i]["Critical_Score"].n
                          >= top_critical[j]["Critical_Score"].n
        /\ \A i, j \in 1..Len(top_critical) :
              i # j => RowOf(top_critical[i]) # RowOf(top_critical[j])
        /\ \A i \in 1..Len(top_critical) :
              \A k \in 1..Len(scored) :
                 (\A j \in 1..Len(top_critical) : RowOf(top_critical[j]) # k)
                    => scored[k].Critical_Score <= top_critical[i]["Critical_Score"].n

\* Machines of equal score are returned in their dataset order
TiesKeepOrder ==
    TopSorted =>
        \A i, j \in 1..Len(top_critical) :
           (i < j /\ top_critical[i]["Critical_Score"] = top_critical[j]["Critical_Score"])
              => RowOf(top_critical[i]) < RowOf(top_critical[j])

\* C17 (as claimed): the top-N view is the first min(N, number of machines)
\* rows of a stable descending sort by Critical_Score: scores descending,
\* nothing left out outscores a returned machine, and machines of equal score
\* keep their dataset order.
C17_TopIsStableSorted == TopIsSortedPrefix /\ TiesKeepOrder

\* calculate_kpis has met a failing step
KpiFailed == stage \in {"kpis", "top"} /\ "error" \in DOMAIN kpis

\* C18 (as claimed): after a failure at whichever step the result holds the
\* total machine count and the error description and no other entry.
C18_FailureLeavesOnlyTotalAndError ==
    KpiFailed =>
        /\ DOMAIN kpis = {"total_machines", "error"}
        /\ kpis["total_machines"] = Len(scored)

(***************************************************************************)
(* Claim about the life of a session in the map, checked under SpecSweep   *)
(***************************************************************************)
\* The step is the startup sweep
SweepStep == ~started /\ started'

\* The session stored under id before the step is not the one stored under
\* it after the step
LostOrReplaced(id) ==
    /\ InMap(id)
    /\ \/ ~InMap(id)'
       \/ conversation_sessions'[id] # conversation_sessions[id]

\* C19: a session leaves the map only by a delete_session on its id that
\* answers 200 or by the startup sweep.  The sweep removes the sessions whose
\* last_activity is more than 24 hours (SweepAge) before the sweep time, all
\* of them and no other, and replaces none; start_session, chat and
\* get_session neither remove nor replace a stored session.
C19_LostOnlyByDeleteOrSweep ==
    [][\A id \in Ids :
        /\ LostOrReplaced(id) =>
              \/ /\ ~SweepStep
                 /\ ~InMap(id)'
                 /\ reply' = [op |-> "delete", id |-> id, status |-> 200]
              \/ /\ SweepStep
                 /\ ~InMap(id)'
                 /\ now - heap[conversation_sessions[id]].last_activity > SweepAge
        /\ (SweepStep /\ InMap(id)
              /\ now - heap[conversation_sessions[id]].last_activity > SweepAge)
              => ~InMap(id)'
        /\ (InMap(id) /\ reply'.op \in {"start", "get"}) => ~LostOrReplaced(id)
        /\ (InMap(id) /\ \E t \in Threads : th'[t] # th[t]) => ~LostOrReplaced(id)]_vars

\* The sweep has removed the session untouched for 36 hours and kept the one
\* untouched for exactly 24 hours, which a later chat has then used
C19_Witness ==
    /\ started
    /\ Len(heap) = 2
    /\ now - heap[1].last_activity >= SweepAge + 1
    /\ heap[1].conversation_history = <<>>
    /\ \A id \in Ids : InMap(id) => conversation_sessions[id] = 2
    /\ \E id \in Ids : InMap(id)
    /\ heap[2].created_at = 1
    /\ Len(heap[2].conversation_history) = 2
    /\ reply = NoReply

(***************************************************************************)
(* Claim about RetrievalSystem.search, checked under SpecSearch            *)
(***************************************************************************)
SearchReturned == lookup.called /\ ~lookup.raised

\* C20: search returns a response and a matched issue, both non-null, exactly
\* when the best score (the index's score clipped to [0, 1]) is >= the
\* threshold, and then they are those of the best row; otherwise it returns
\* that score with neither.  The returned score is within [0, 1].  A blank
\* query returns (None, 0.0, None) and the index is not queried.
C20_ContentIffScoreReachesThreshold ==
    SearchReturned =>
        LET r == lookup.result
            best_score == IF lookup.raw < 0 THEN 0
                          ELSE IF lookup.raw > 10 THEN 10 ELSE lookup.raw
        IN  /\ r.score >= 0 /\ r.score <= 10
            /\ r.response.some <=> r.matched_issue.some
            /\ IF \A i \in 1..Len(lookup.query) :
                     SubSeq(lookup.query, i, i) = " "
               THEN /\ ~lookup.queried
                    /\ r = [response |-> None, score |-> 0, matched_issue |-> None]
               ELSE /\ lookup.queried
                    /\ r.score = best_score
                    /\ r.response.some <=> best_score >= lookup.threshold
                    /\ r.response.some =>
                         /\ r.response.v =
                              KnowledgeBase[lookup.best_idx + 1].Tech_Response
                         /\ r.matched_issue.v =
                              KnowledgeBase[lookup.best_idx + 1].Customer_Issue

\* The index scored above 1.0, the score was clipped to 1.0 and met a
\* threshold of 1.0: content is returned
C20_Witness ==
    /\ SearchReturned
    /\ lookup.query = "vpn keeps dropping"
    /\ lookup.raw = 12
    /\ lookup.threshold = 10
    /\ lookup.result.score = 10
    /\ lookup.result.response.some
    /\ lookup.result.matched_issue.some

(***************************************************************************)
(* Claim about the column resolver, checked under SpecResolve              *)
(***************************************************************************)
\* name is the first column of cols, in their order, whose lowercased name
\* contains one of the aliases, or the default when no column does
FirstMatchOrDefault(cols, aliases, default, name) ==
    LET Matches(i) ==
            \E k \in 1..Len(aliases) : Contains(LowerOf(cols[i]), aliases[k])
    IN  IF \E i \in 1..Len(cols) : Matches(i)
        THEN \E i \in 1..Len(cols) :
                /\ Matches(i)
                /\ \A j \in 1..(i - 1) : ~Matches(j)
                /\ name = cols[i]
        ELSE name = default

\* C21: each of cpu, ram and disk (and the other four fields) is resolved to
\* the first column, in the order of the header, whose lowercased name
\* contains one of the field's aliases, and to the field's default name when
\* there is none; the header CPU Usage (%), RAM%, Disk Storage resolves to
\* those three names; a second resolution of the same header gives the same
\* names.
C21_FirstMatchingColumnOrDefault ==
    stage \in {"resolved", "resolved twice"} =>
        /\ FirstMatchOrDefault(df.columns, <<"cpu", "processor", "processor usage">>,
                               "CPU Usage (%)", attrs.cpu_col)
        /\ FirstMatchOrDefault(df.columns, <<"ram", "memory", "memory usage">>,
                               "RAM Usage (%)", attrs.ram_col)
        /\ FirstMatchOrDefault(df.columns,
                               <<"disk", "storage", "disk usage", "storage usage">>,
                               "Disk Usage (%)", attrs.disk_col)
        /\ FirstMatchOrDefault(df.columns, <<"network", "network status">>,
                               "Network Status", attrs.network_col)
        /\ FirstMatchOrDefault(df.columns,
                               <<"missingpatchs", "missingpatchskb", "patch">>,
                               "MissingPatchsKB", attrs.patch_col)
        /\ FirstMatchOrDefault(df.columns, <<"severity", "risk level">>,
                               "Severity", attrs.severity_col)
        /\ FirstMatchOrDefault(df.columns, <<"cve", "cve identifier">>,
                               "CVE identifier(s)", attrs.cve_col)
        /\ df.columns = <<"CPU Usage (%)", "RAM%", "Disk Storage">> =>
              /\ attrs.cpu_col = "CPU Usage (%)"
              /\ attrs.ram_col = "RAM%"
              /\ attrs.disk_col = "Disk Storage"

\* The header holds two columns that match ram, "Program" before "RAM%", and
\* none that matches disk; it has been resolved twice
C21_Witness ==
    /\ stage = "resolved twice"
    /\ df.columns = <<"CPU Usage (%)", "Program", "RAM%">>
    /\ attrs.cpu_col = "CPU Usage (%)"
    /\ attrs.ram_col = "Program"
    /\ attrs.disk_col = "Disk Usage (%)"

(***************************************************************************)
(* Claims about the follow-up branch, checked under Spec                   *)
(***************************************************************************)
\* C22: a question asked on a session whose solution is not set is not
\* classified as a follow-up, whatever its wording, and does not enter the
\* follow-up branch; a request is in the follow-up branch, returns source
\* "gpt_context" or returns is_followup true only on a session whose
\* solution is set.
C22_NoFollowupWithoutSolution ==
    [][\A t \in Threads :
        /\ (/\ th[t].pc = "fetch"
            /\ InMap(th[t].session_id)
            /\ ~Truthy(heap[conversation_sessions[th[t].session_id]].solution))
              => /\ th'[t].pc \notin {"idle", "followup"}
                 /\ ~th'[t].is_followup
        /\ th'[t].pc = "followup" => Truthy(heap'[th'[t].session].solution)
        /\ (/\ Returns(t)
            /\ th'[t].result.source = "gpt_context" \/ th'[t].result.is_followup)
              => Truthy(heap[th[t].session].solution)]_vars

\* A question worded as a follow-up, asked first on a new session, has been
\* answered by the plain fallback
C22_Witness ==
    \E t \in Threads :
        /\ th[t].pc = "idle"
        /\ th[t].result.status = 200
        /\ th[t].result.source = "gpt"
        /\ ~th[t].result.is_followup
        /\ InMap(th[t].result.session_id)
        /\ LET S == heap[conversation_sessions[th[t].result.session_id]]
           IN  /\ Len(S.conversation_history) = 2
               /\ S.conversation_history[1].content = "it's still not working"
               /\ S.conversation_history[2].source = "gpt"
               /\ ~Truthy(S.solution)

\* The last k turns of the history the request on thread t sees
SeenTurns(t, k) == LastTurns(heap[th[t].session].conversation_history, k)

\* C23 (as claimed): an answer returned with source "gpt_context" comes from
\* a generator call whose prompt holds the context built from the session's
\* problem, its solution and its last 4 history turns, the last of them the
\* current question; no answer to the question alone is tagged "gpt_context".
C23_ContextAnswersUseContext ==
    [][\A t \in Threads :
        (Returns(t) /\ th'[t].result.source = "gpt_context")
           => /\ th'[t].prompt =
                    build_conversation_context(heap[th[t].session])
                    \o "\n\nUser's current question: " \o th[t].question
              /\ th'[t].prompt # th[t].question
              /\ SeenTurns(t, 4)[Len(SeenTurns(t, 4))].role = "user"
              /\ SeenTurns(t, 4)[Len(SeenTurns(t, 4))].content = th[t].question]_vars

(***************************************************************************)
(* Claim about the numeric coercion, checked under SpecCoerce              *)
(***************************************************************************)
\* The cell holds a finite number, as a number or as a string of digits
FiniteCell(c) == c.t = "num" \/ (c.t = "str" /\ IsDigits(c.s))

\* Its value, in halves
CellValue(c) == IF c.t = "num" THEN c.n ELSE 2 * ParseInt(c.s)

\* x is the median of the finite cells of the column: the mean of the lower
\* and the upper middle value
IsMedianOf(cells, x) ==
    LET valid == {i \in 1..Len(cells) : FiniteCell(cells[i])}
        m == Cardinality(valid)
        Below(v) == Cardinality({i \in valid : CellValue(cells[i]) < v})
        Above(v) == Cardinality({i \in valid : CellValue(cells[i]) > v})
    IN  \E a, b \in {CellValue(cells[i]) : i \in valid} :
           /\ Below(a) <= (m - 1) \div 2 /\ Above(a) <= m \div 2
           /\ Below(b) <= m \div 2 /\ Above(b) <= (m - 1) \div 2
           /\ 2 * x = a + b

\* The cells of a usage column of the dataset, and of df_scored
GivenColumn(fld) == df.data[Header[fld]]
ScoredCell(fld, i) ==
    IF fld = "cpu" THEN scored[i].cpu
    ELSE IF fld = "ram" THEN scored[i].ram ELSE scored[i].disk

\* C24: in df_scored every cpu, ram and disk cell is a finite number.  A cell
\* that held a finite number keeps it; a cell that was not numeric, empty,
\* NaN or an infinity holds the median of the finite values of its column,
\* or 0 when the column has none.
C24_UsageCellsFinite ==
    stage = "scored" =>
        \A fld \in {"cpu", "ram", "disk"} : \A i \in 1..Len(scored) :
            LET given == GivenColumn(fld)
                cell == ScoredCell(fld, i)
            IN  /\ cell.t = "num"
                /\ IF FiniteCell(given[i]) THEN cell.n = CellValue(given[i])
                   ELSE IF \E j \in 1..Len(given) : FiniteCell(given[j])
                   THEN IsMedianOf(given, cell.n)
                   ELSE cell.n = 0

\* The cpu column held 85.0, an infinity and 50.0: the infinity has become
\* their median 67.5; the empty disk column holds 0
C24_Witness ==
    /\ stage = "scored"
    /\ GivenColumn("cpu") = <<Num(170), PosInf, Num(100)>>
    /\ scored[1].cpu = Num(170)
    /\ scored[2].cpu = Num(135)
    /\ scored[3].cpu = Num(100)
    /\ scored[2].disk = Num(0)

(***************************************************************************)
(* Claims about requests in flight together, checked under Spec            *)
(***************************************************************************)
\* The session has its problem and its solution both unset or both set
ProblemAndSolutionTogether(session) ==
    (session.problem = None) <=> (session.solution = None)

\* C25: a session that GET /session/{id} returns, while chat requests are in
\* flight or not, has its problem and its solution both unset or both set.
C25_ProblemAndSolutionTogether ==
    [][(reply'.op = "get" /\ reply'.status = 200)
          => ProblemAndSolutionTogether(heap[conversation_sessions[reply'.id]])]_vars

\* Request t, which found its session id absent at line 63, stores its new
\* session (lines 65-72)
Creates(t) == th[t].pc = "create" /\ th'[t].pc = "fetch"

\* C26: of two chat requests in flight together that name the same absent
\* id, one creates the session: when the other reaches line 65 the id is
\* in the map, no second session is created and the stored session, with the
\* turns it holds, stays under the id.
C26_OneSessionForConcurrentRequests ==
    [][\A t \in Threads :
          (Creates(t) /\ InMap(th[t].session_id))
             => /\ Len(heap') = Len(heap)
                /\ conversation_sessions'[th[t].session_id] =
                      conversation_sessions[th[t].session_id]
                /\ heap'[conversation_sessions'[th[t].session_id]].conversation_history =
                      heap[conversation_sessions[th[t].session_id]].conversation_history]_vars


====
